---- MODULE Spec2Model ----
(***************************************************************************)
(* SymSync: mirroring of source directories into one target directory by   *)
(* symbolic links.  The module models the filesystem the program acts on,  *)
(* the merge algorithm, the watchdog handlers, the reconciliation thread   *)
(* and the configuration operations of SymSyncApp.                         *)
(***************************************************************************)
EXTENDS Integers, Sequences, FiniteSets, TLC

VARIABLES
    fs,         \* the filesystem: raw path (lower-case components) -> entry
    links,      \* SymSyncApp.links: link id -> LinkConfiguration
    ui,         \* selected_link_id, target_var, stop_event, ids, SETTINGS_FILE
    rs,         \* the rescan_active_links thread: its position and locals
    now,        \* time.time(), in seconds
    last        \* the most recent operation and what it returned

vars == <<fs, links, ui, rs, now, last>>

(***************************************************************************)
(* Bounds of the model.                                                    *)
(***************************************************************************)
MaxHops == 3          \* link indirections followed while resolving a path
MaxRecursion == 4     \* nesting of merge_directory_contents calls
MaxMergeRuns == 2     \* merge calls in a run of SpecMerge
StartTime == 10       \* time.time() when the program starts

(***************************************************************************)
(* Paths.  A path is a sequence of components.  Windows compares names     *)
(* without regard to case: str.lower()/os.path.normcase map a component to *)
(* its lower-case form, os.path.normpath drops empty components (a         *)
(* trailing separator).                                                    *)
(***************************************************************************)
Lower(c) ==
    CASE c = "T" -> "t"
      [] c = "U" -> "u"
      [] c = "S1" -> "s1"
      [] c = "S2" -> "s2"
      [] OTHER -> c

NormCase(p) == [i \in 1..Len(p) |-> Lower(p[i])]

NormPath(p) == SelectSeq(p, LAMBDA c : c # "")

Key(p) == NormCase(NormPath(p))

Join(dir, item) == Append(NormPath(dir), item)

Parent(p) == SubSeq(p, 1, Len(p) - 1)

BaseName(p) == p[Len(p)]

Missing == <<"?">>

(* Body applied to the value v, which is computed once. *)
Bind(v, Body(_)) == CHOOSE y \in {Body(x) : x \in {v}} : TRUE

NameOrder == <<"a", "b", "x", "y">>

SortedNames(S) == SelectSeq(NameOrder, LAMBDA n : n \in S)

(***************************************************************************)
(* Filesystem entries.                                                     *)
(***************************************************************************)
File(c) == [k |-> "file", d |-> <<>>, c |-> c]
Dir == [k |-> "dir", d |-> <<>>, c |-> ""]
Link(dest, isdir) == [k |-> IF isdir THEN "dlink" ELSE "flink", d |-> dest, c |-> ""]

IsLinkEntry(e) == e.k \in {"flink", "dlink"}

Without(F, key) == [p \in DOMAIN F \ {key} |-> F[p]]

With(F, key, e) == [p \in DOMAIN F \cup {key} |-> IF p = key THEN e ELSE F[p]]

(* The raw location a path names: every link on the way is followed, the   *)
(* last component's only when follow is TRUE (stat against lstat).         *)
RECURSIVE Walk(_, _, _, _, _)
Walk(F, base, rest, follow, hops) ==
    IF rest = <<>> THEN base
    ELSE LET q == Append(base, Lower(Head(rest)))
             final == Len(rest) = 1
         IN  IF q \notin DOMAIN F THEN Missing
             ELSE IF IsLinkEntry(F[q]) /\ (~final \/ follow)
                  THEN IF hops = 0 THEN Missing
                       ELSE Walk(F, <<>>, NormPath(F[q].d) \o Tail(rest), follow, hops - 1)
             ELSE IF ~final /\ F[q].k # "dir" THEN Missing
             ELSE Walk(F, q, Tail(rest), follow, hops)

Stat(F, p) == Walk(F, <<>>, NormPath(p), TRUE, MaxHops)
LStat(F, p) == Walk(F, <<>>, NormPath(p), FALSE, MaxHops)

LExists(F, p) == LStat(F, p) # Missing      \* os.path.lexists
Exists(F, p) == Stat(F, p) # Missing        \* os.path.exists
IsDir(F, p) ==                              \* os.path.isdir
    \E r \in {Stat(F, p)} : r # Missing /\ (r = <<>> \/ F[r].k = "dir")
IsLink(F, p) ==                             \* os.path.islink
    \E r \in {LStat(F, p)} : r # Missing /\ r # <<>> /\ IsLinkEntry(F[r])
ReadLink(F, p) == F[LStat(F, p)].d          \* os.readlink

ListDir(F, p) ==                            \* os.listdir of a directory
    UNION {{q[Len(q)] : q \in {q \in DOMAIN F : Len(q) = Len(r) + 1 /\ SubSeq(q, 1, Len(r)) = r}} :
            r \in {Stat(F, p)}}

RealFileAt(F, p) == Key(p) \in DOMAIN F /\ F[Key(p)].k = "file"
RealDirAt(F, p) == Key(p) \in DOMAIN F /\ F[Key(p)].k = "dir"
Under(F, dir) == {q \in DOMAIN F : Len(q) > Len(dir) /\ SubSeq(q, 1, Len(dir)) = dir}

(* The raw key at which an entry named by p would be made.                 *)
SlotOf(F, p) ==
    Bind(Stat(F, Parent(NormPath(p))), LAMBDA par :
        IF NormPath(p) = <<>> \/ par = Missing THEN Missing
        ELSE IF par # <<>> /\ F[par].k # "dir" THEN Missing
        ELSE Append(par, Lower(BaseName(NormPath(p)))))

(* os.makedirs: every missing directory on the way is made.                *)
RECURSIVE MakeDirs(_, _)
MakeDirs(F, p) ==
    IF Exists(F, p) \/ NormPath(p) = <<>> THEN [fs |-> F, ok |-> IsDir(F, p)]
    ELSE Bind(MakeDirs(F, Parent(NormPath(p))), LAMBDA up :
            Bind(SlotOf(up.fs, p), LAMBDA slot :
                IF ~up.ok \/ slot = Missing \/ slot \in DOMAIN up.fs
                THEN [fs |-> up.fs, ok |-> FALSE]
                ELSE [fs |-> With(up.fs, slot, Dir), ok |-> TRUE]))

(***************************************************************************)
(* The shell commands run through execute_admin_command: each returns the  *)
(* filesystem it leaves and whether the command wrote nothing to stderr.   *)
(***************************************************************************)
(* mklink [/D] "link" "dest" *)
MkLink(F, linkpath, dest, isdir) ==
    Bind(SlotOf(F, linkpath), LAMBDA slot :
        IF slot = Missing \/ slot \in DOMAIN F
        THEN [fs |-> F, ok |-> FALSE]
        ELSE [fs |-> With(F, slot, Link(dest, isdir)), ok |-> TRUE])

(* rmdir "path": a directory link, or an empty directory *)
RmDir(F, p) ==
    Bind(LStat(F, p), LAMBDA r :
        IF r = Missing \/ r = <<>> THEN [fs |-> F, ok |-> FALSE]
        ELSE IF F[r].k = "dlink" \/ (F[r].k = "dir" /\ Under(F, r) = {})
             THEN [fs |-> Without(F, r), ok |-> TRUE]
        ELSE [fs |-> F, ok |-> FALSE])

(* del /f "path": a file or a file link *)
Del(F, p) ==
    Bind(LStat(F, p), LAMBDA r :
        IF r = Missing \/ r = <<>> THEN [fs |-> F, ok |-> FALSE]
        ELSE IF F[r].k \in {"file", "flink"}
             THEN [fs |-> Without(F, r), ok |-> TRUE]
        ELSE [fs |-> F, ok |-> FALSE])

(* a variant that always runs rmdir *)
RemoveEntryByRmDir(F, p) == RmDir(F, p)

(* the command the handlers pick to remove an entry: by os.path.isdir *)
RemoveEntry(F, p) == IF IsDir(F, p) THEN RmDir(F, p) ELSE Del(F, p)

(***************************************************************************)
(* merge_directory_contents(source_dir, target_dir, update_status).        *)
(* The result: the filesystem left, the count returned, and err: "ok",     *)
(* "raised" (an exception left the call) or "depth" (the recursion did not *)
(* end within MaxRecursion).                                               *)
(***************************************************************************)
MergeLinkIsDir(F, source_path) == IsDir(F, source_path)

MergeOccupied(F, symlink_path) == LExists(F, symlink_path)

(* a variant that never descends into a directory present on both sides *)
MergeNeverRecurses(F, source_path, symlink_path) == FALSE

MergeRecurses(F, source_path, symlink_path) ==
    IsDir(F, source_path) /\ IsDir(F, symlink_path)

(* variants of the skip: one counts the skipped item, one clears the name *)
MergeSkipCounted(F, symlink_path, count) == [fs |-> F, count |-> count + 1]

MergeSkipCleared(F, symlink_path, count) ==
    [fs |-> RemoveEntry(F, symlink_path).fs, count |-> count]

(* an occupied name that is not a pair of directories: `continue` *)
MergeSkipItem(F, symlink_path, count) == [fs |-> F, count |-> count]

MergeActualTarget(F, target_dir) ==
    IF IsLink(F, target_dir) THEN ReadLink(F, target_dir) ELSE target_dir

RECURSIVE MergeItems(_, _, _, _, _, _)
RECURSIVE Merge(_, _, _, _)

MergeItems(F, source_dir, actual, items, count, depth) ==
    IF items = <<>> THEN [fs |-> F, count |-> count, err |-> "ok"]
    ELSE LET item == Head(items)
             source_path == Join(source_dir, item)
             symlink_path == Join(actual, item)
         IN  IF MergeOccupied(F, symlink_path)
             THEN IF MergeRecurses(F, source_path, symlink_path)
                  THEN Bind(Merge(F, source_path, symlink_path, depth - 1), LAMBDA sub :
                          IF sub.err # "ok"
                          THEN [fs |-> sub.fs, count |-> count, err |-> sub.err]
                          ELSE MergeItems(sub.fs, source_dir, actual, Tail(items),
                                          count + sub.count, depth))
                  ELSE Bind(MergeSkipItem(F, symlink_path, count), LAMBDA skip :
                          MergeItems(skip.fs, source_dir, actual, Tail(items),
                                     skip.count, depth))
             ELSE Bind(MkLink(F, symlink_path, source_path,
                              MergeLinkIsDir(F, source_path)), LAMBDA made :
                     MergeItems(made.fs, source_dir, actual, Tail(items),
                                IF made.ok THEN count + 1 ELSE count, depth))

EnsureDir(F, dir) == IF ~Exists(F, dir) THEN MakeDirs(F, dir) ELSE [fs |-> F, ok |-> TRUE]

Merge(F, source_dir, target_dir, depth) ==
    IF depth = 0 THEN [fs |-> F, count |-> 0, err |-> "depth"]
    ELSE Bind(MergeActualTarget(F, target_dir), LAMBDA actual :
            Bind(EnsureDir(F, actual), LAMBDA made :
                IF ~made.ok \/ ~IsDir(made.fs, source_dir)
                THEN [fs |-> made.fs, count |-> 0, err |-> "raised"]
                ELSE MergeItems(made.fs, source_dir, actual,
                                SortedNames(ListDir(made.fs, source_dir)), 0, depth)))

merge_directory_contents(F, source_dir, target_dir) ==
    Merge(F, source_dir, target_dir, MaxRecursion)

(***************************************************************************)
(* LinkConfiguration, and the Observer a source maps to while watched.     *)
(***************************************************************************)
LogLimit == 50
DefaultInterval == 10

(* the ids str(uuid.uuid4())[:8] gives out, in the order it gives them *)
LinkIds == <<"L1", "L2">>

IndexOf(id) == CHOOSE i \in 1..Len(LinkIds) : LinkIds[i] = id

(* f"Link {len(self.links) + 1}" *)
LinkName(n) == <<"Link", n>>

IdsOf(L) == SelectSeq(LinkIds, LAMBDA id : id \in DOMAIN L)

(* pc is where the Observer's thread stands inside a handler *)
NoObserver ==
    [alive |-> FALSE, source |-> <<>>, target |-> <<>>, link |-> "", queue |-> <<>>,
     pc |-> "idle"]

(* Observer() with FolderChangeHandler(source, target, update_status) *)
Observer(source, target, id) ==
    [alive |-> TRUE, source |-> NormPath(source), target |-> target, link |-> id,
     queue |-> <<>>, pc |-> "idle"]

(* A status message: its text, and the count or the path the text carries. *)
Msg(text, n, path) == [t |-> text, n |-> n, p |-> path]

LinkConfiguration(name, target_path) ==
    [name |-> name, target_path |-> target_path, sources |-> <<>>, is_active |-> FALSE,
     status |-> Msg("Not configured", 0, <<>>), logs |-> <<>>, rescan_interval |-> DefaultInterval,
     last_rescan |-> 0]

SourcePaths(link) == [i \in 1..Len(link.sources) |-> link.sources[i].path]

(* a variant that already evicts when the log holds LogLimit entries *)
LogTrimEarly(logs) == IF Len(logs) >= LogLimit THEN Tail(logs) ELSE logs

(* `if len(link.logs) > 50: link.logs.pop(0)` *)
LogTrim(logs) == IF Len(logs) > LogLimit THEN Tail(logs) ELSE logs

(* SymSyncApp.update_link_status(link_id, message) *)
update_link_status(L, link_id, message) ==
    IF link_id \notin DOMAIN L THEN L
    ELSE [L EXCEPT ![link_id].status = message,
                   ![link_id].logs = LogTrim(Append(@, [at |-> now, msg |-> message]))]

(***************************************************************************)
(* FolderChangeHandler.  A handler takes the filesystem and the links and  *)
(* returns what it leaves; err is "raised" when an exception leaves it.    *)
(***************************************************************************)
SamePrefix(source_parts, path_parts) ==
    \A i \in 1..Len(source_parts) : Lower(source_parts[i]) = Lower(path_parts[i])

(* a variant that takes every path below the source for a direct child *)
IsBelowSource(source, path) ==
    /\ Len(NormPath(path)) >= Len(source) + 1
    /\ SamePrefix(source, NormPath(path))

_is_direct_child(source, path) ==
    LET path_parts == NormPath(path)
    IN  /\ Len(path_parts) = Len(source) + 1
        /\ SamePrefix(source, path_parts)

Event(type, src_path, dest_path, is_directory) ==
    [type |-> type, src_path |-> src_path, dest_path |-> dest_path,
     is_directory |-> is_directory]

Untouched(F, L) == [fs |-> F, links |-> L, err |-> "ok"]

(* the creation half shared by on_created and on_moved *)
LinkOrMerge(F, L, o, path, is_directory, verb) ==
    LET target_path == Join(o.target, BaseName(path))
    IN  IF LExists(F, target_path) /\ is_directory /\ IsDir(F, target_path)
        THEN Bind(merge_directory_contents(F, path, target_path), LAMBDA m :
                [fs |-> m.fs,
                 links |-> update_link_status(L, o.link, Msg("Merging", 0, <<BaseName(path)>>)),
                 err |-> m.err])
        ELSE IF LExists(F, target_path) THEN Untouched(F, L)
        ELSE [fs |-> MkLink(F, target_path, path, is_directory).fs,
              links |-> update_link_status(L, o.link, Msg(verb, 0, <<BaseName(path)>>)),
              err |-> "ok"]

on_created(F, L, o, event) ==
    IF ~_is_direct_child(o.source, event.src_path) THEN Untouched(F, L)
    ELSE LinkOrMerge(F, L, o, event.src_path, event.is_directory, "Created")

on_deleted(F, L, o, event) ==
    LET target_path == Join(o.target, BaseName(event.src_path))
    IN  IF ~_is_direct_child(o.source, event.src_path) THEN Untouched(F, L)
        ELSE IF LExists(F, target_path)
             THEN [fs |-> RemoveEntry(F, target_path).fs,
                   links |-> update_link_status(L, o.link,
                                                Msg("Removed", 0, <<BaseName(event.src_path)>>)),
                   err |-> "ok"]
        ELSE Untouched(F, L)

on_modified(F, L, o, event) ==
    LET target_path == Join(o.target, BaseName(event.src_path))
    IN  IF ~_is_direct_child(o.source, event.src_path) THEN Untouched(F, L)
        ELSE IF ~event.is_directory /\ LExists(F, target_path)
             THEN [fs |-> MkLink(RemoveEntry(F, target_path).fs, target_path,
                                 event.src_path, FALSE).fs,
                   links |-> update_link_status(L, o.link,
                                                Msg("Updated", 0, <<BaseName(event.src_path)>>)),
                   err |-> "ok"]
        ELSE Untouched(F, L)

on_moved(F, L, o, event) ==
    LET src_is_direct == _is_direct_child(o.source, event.src_path)
        dest_is_direct == _is_direct_child(o.source, event.dest_path)
        old_target == Join(o.target, BaseName(event.src_path))
    IN  IF ~(src_is_direct \/ dest_is_direct) THEN Untouched(F, L)
        ELSE Bind(IF src_is_direct /\ LExists(F, old_target)
                  THEN RemoveEntry(F, old_target).fs ELSE F, LAMBDA F1 :
                IF dest_is_direct
                THEN LinkOrMerge(F1, L, o, event.dest_path, event.is_directory, "Moved")
                ELSE Untouched(F1, L))

dispatch(F, L, o, event) ==
    CASE event.type = "created" -> on_created(F, L, o, event)
      [] event.type = "deleted" -> on_deleted(F, L, o, event)
      [] event.type = "modified" -> on_modified(F, L, o, event)
      [] OTHER -> on_moved(F, L, o, event)

(***************************************************************************)
(* create_symlinks_for_source(source, target, update_status): the initial  *)
(* merge and the Observer started on the source; made is FALSE when the    *)
(* function returned None.  update_status logs to link id.                 *)
(***************************************************************************)
create_symlinks_for_source(F, L, source, target, id) ==
    IF ~Exists(F, source)
    THEN [fs |-> F, links |-> update_link_status(L, id, Msg("Source not found", 0, source)),
          made |-> FALSE, err |-> "ok"]
    ELSE Bind(EnsureDir(F, target), LAMBDA dirs :
            Bind(merge_directory_contents(dirs.fs, source, target), LAMBDA m :
                IF ~dirs.ok \/ m.err # "ok"
                THEN [fs |-> m.fs, links |-> L, made |-> FALSE, err |-> "raised"]
                ELSE [fs |-> m.fs,
                      links |-> update_link_status(L, id,
                                    Msg("Linked", m.count, <<BaseName(source)>>)),
                      made |-> TRUE, err |-> "ok"]))

(* `for source in list(link.sources.keys())`: sources i.. of link id are   *)
(* merged and watched in turn, as start_link and load_settings do.         *)
RECURSIVE WatchSources(_, _, _, _)
WatchSources(F, L, id, i) ==
    IF i > Len(L[id].sources) THEN [fs |-> F, links |-> L, err |-> "ok"]
    ELSE Bind(create_symlinks_for_source(F, L, L[id].sources[i].path,
                                         L[id].target_path, id), LAMBDA r :
            IF r.err # "ok" THEN [fs |-> r.fs, links |-> r.links, err |-> r.err]
            ELSE WatchSources(r.fs,
                              IF r.made
                              THEN [r.links EXCEPT ![id].sources[i].obs =
                                       Observer(L[id].sources[i].path, L[id].target_path, id)]
                              ELSE r.links,
                              id, i + 1))

(***************************************************************************)
(* Saved records and load_settings, which SymSyncApp.__init__ runs before  *)
(* it starts the rescan thread.                                            *)
(***************************************************************************)
SavedRecord(id, target_path, sources, is_active, rescan_interval) ==
    [id |-> id, name |-> LinkName(IndexOf(id)), target_path |-> target_path, sources |-> sources,
     is_active |-> is_active, logs |-> <<>>, rescan_interval |-> rescan_interval]

(* a variant that forgets whether the configuration was active *)
FromDictInactive(data) ==
    [LinkConfiguration(data.name, data.target_path) EXCEPT
        !.sources = [i \in 1..Len(data.sources) |-> [path |-> data.sources[i], obs |-> NoObserver]],
        !.logs = data.logs,
        !.rescan_interval = data.rescan_interval]

from_dict(data) ==
    [LinkConfiguration(data.name, data.target_path) EXCEPT
        !.sources = [i \in 1..Len(data.sources) |-> [path |-> data.sources[i], obs |-> NoObserver]],
        !.is_active = data.is_active,
        !.logs = data.logs,
        !.rescan_interval = data.rescan_interval]

LoadRestarts(link) == link.is_active /\ link.target_path # <<>> /\ link.sources # <<>>

RECURSIVE load_settings(_, _, _)
load_settings(F, L, records) ==
    IF records = <<>> THEN [fs |-> F, links |-> L]
    ELSE LET data == Head(records)
             id == data.id
             L1 == [x \in DOMAIN L \cup {id} |-> IF x = id THEN from_dict(data) ELSE L[x]]
         IN  IF LoadRestarts(L1[id])
             THEN Bind(WatchSources(F, [L1 EXCEPT ![id].is_active = FALSE], id, 1), LAMBDA w :
                     IF w.err # "ok" THEN [fs |-> w.fs, links |-> w.links]
                     ELSE load_settings(w.fs, [w.links EXCEPT ![id].is_active = TRUE],
                                        Tail(records)))
             ELSE load_settings(F, L1, Tail(records))

(***************************************************************************)
(* The state outside the filesystem and the links.                         *)
(***************************************************************************)
(* selected_link_id, the text of the target field, stop_event, the ids    *)
(* given out so far, and the records in SETTINGS_FILE                      *)
NoUi == [selected |-> "", target_var |-> <<>>, stop_event |-> FALSE, used |-> {},
         saved |-> <<>>]

(* the reconciliation thread: where it stands, and the locals of the merge *)
(* it is in: the items left to visit, actual_target_dir, success_count,   *)
(* the kind of link it chose, and whether an exception left the merge     *)
NoThread ==
    [pc |-> "top", time |-> 0, links |-> <<>>, link |-> "", sources |-> <<>>,
     items |-> <<>>, actual |-> <<>>, count |-> 0, isdir |-> FALSE, err |-> "ok"]

NoEvent == [type |-> "none", src_path |-> <<>>, dest_path |-> <<>>, is_directory |-> FALSE]

NoOp == [op |-> "none", id |-> "", src |-> <<>>, tgt |-> <<>>, ev |-> NoEvent,
         pre |-> <<>>, links |-> <<>>, count |-> 0, err |-> "ok",
         again |-> FALSE, before |-> 0, run |-> 0, env |-> 0, lost |-> {}, born |-> {},
         halted |-> {}, total |-> 0, lines |-> 0, cleaned |-> {}]

(* the record of an operation that starts in the current state *)
Op(name) == [NoOp EXCEPT !.op = name, !.pre = fs, !.links = links, !.run = last.run,
                         !.env = last.env, !.lost = last.lost, !.born = last.born,
                         !.halted = last.halted, !.total = last.total,
                         !.lines = last.lines, !.cleaned = last.cleaned]

(* the same, for an operation that uses up one of the moves a run allows *)
Move(name) == [Op(name) EXCEPT !.run = last.run + 1]

(* the same, for one of the changes the user makes to the trees *)
EnvOp(name) == [Op(name) EXCEPT !.env = last.env + 1]

(***************************************************************************)
(* Trees the merge is applied to: a source s1, a second source s2 and a    *)
(* target t that may already hold real entries and links.                  *)
(***************************************************************************)
S1 == <<"s1">>
S2 == <<"s2">>
T == <<"t">>

TopNames == {"a", "b"}
SubNames == {"x", "y"}

SrcShapes ==
    {[k |-> "none", kids |-> {}], [k |-> "file", kids |-> {}]}
    \cup {[k |-> "dir", kids |-> K] : K \in SUBSET SubNames}

TgtShapes ==
    {[k |-> kk, kids |-> [n \in SubNames |-> "none"]] : kk \in {"none", "file", "flink", "dlink", "dlink2"}}
    \cup {[k |-> "dir", kids |-> f] : f \in [SubNames -> {"none", "file", "link"}]}

SrcItem(root, n, sh) ==
    CASE sh.k = "none" -> {}
      [] sh.k = "file" -> {<<Append(root, n), File("u")>>}
      [] OTHER -> {<<Append(root, n), Dir>>}
                  \cup {<<Append(root, n) \o <<m>>, File("u")>> : m \in sh.kids}

TgtItem(n, sh) ==
    CASE sh.k = "none" -> {}
      [] sh.k = "file" -> {<<Append(T, n), File("v")>>}
      [] sh.k = "flink" -> {<<Append(T, n), Link(Append(S1, n), FALSE)>>}
      [] sh.k = "dlink" -> {<<Append(T, n), Link(Append(S1, n), TRUE)>>}
      [] sh.k = "dlink2" -> {<<Append(T, n), Link(Append(S2, n), TRUE)>>}
      [] OTHER -> {<<Append(T, n), Dir>>}
                  \cup {<<Append(T, n) \o <<m>>, File("v")>> : m \in {m \in SubNames : sh.kids[m] = "file"}}
                  \cup {<<Append(T, n) \o <<m>>, Link(Append(S1, n) \o <<m>>, FALSE)>> :
                            m \in {m \in SubNames : sh.kids[m] = "link"}}

MapOf(S) == [p \in {e[1] : e \in S} |-> (CHOOSE e \in S : e[1] = p)[2]]

SecondSource ==
    {<<S2, Dir>>, <<Append(S2, "a"), Dir>>, <<Append(S2, "a") \o <<"x">>, File("u")>>,
     <<Append(S2, "b"), File("u")>>}

MergeTrees ==
    {MapOf({<<S1, Dir>>, <<T, Dir>>} \cup SecondSource
           \cup SrcItem(S1, "a", sa) \cup SrcItem(S1, "b", sb)
           \cup TgtItem("a", ta) \cup TgtItem("b", tb)) :
        sa \in SrcShapes, sb \in {s \in SrcShapes : s.kids = {}}, ta \in TgtShapes,
        tb \in {s \in TgtShapes : s.k # "dir"}}
    \cup {MapOf({<<S1, Dir>>} \cup SecondSource \cup SrcItem(S1, "a", sa)) : sa \in SrcShapes}
    \cup {MapOf({<<T, Dir>>} \cup SecondSource \cup TgtItem("a", ta)) : ta \in TgtShapes}

InitMerge ==
    /\ fs \in MergeTrees
    /\ links = <<>>
    /\ ui = NoUi
    /\ rs = NoThread
    /\ now = StartTime
    /\ last = NoOp

(* one call merge_directory_contents(src, T, _) *)
CallMerge(src) ==
    /\ last.run < MaxMergeRuns
    /\ \E r \in {merge_directory_contents(fs, src, T)} :
           /\ fs' = r.fs
           /\ last' = [Move("merge") EXCEPT
                          !.src = src, !.tgt = T, !.count = r.count, !.err = r.err,
                          !.again = last.op = "merge" /\ last.src = src /\ last.err = "ok",
                          !.before = last.count]
    /\ UNCHANGED <<links, ui, rs, now>>

NextMerge == \E src \in {S1, S2} : CallMerge(src)

SpecMerge == InitMerge /\ [][NextMerge]_vars

(***************************************************************************)
(* The user changing the source trees, and the events watchdog queues at   *)
(* every live Observer whose watched directory holds the changed path.     *)
(* An event's paths start with the directory as the Observer was given it. *)
(***************************************************************************)
MaxEnvOps == 2        \* changes the user makes to the trees in a run
MaxQueue == 2         \* events waiting at one Observer
EnvPaths ==
    {Append(r, n) : r \in {S1, S2}, n \in TopNames}
    \cup {Append(r, "a") \o <<"x">> : r \in {S1, S2}}

MovePaths == EnvPaths \cup {Append(r, "b") \o <<"x">> : r \in {S1, S2}}

Watches(o, p) ==
    /\ o.alive
    /\ Len(p) > Len(o.source)
    /\ NormCase(o.source) = SubSeq(p, 1, Len(o.source))

AsSeen(o, p) == IF p = <<>> THEN <<>> ELSE o.source \o SubSeq(p, Len(o.source) + 1, Len(p))

QueueRoom(p) ==
    \A id \in DOMAIN links : \A i \in 1..Len(links[id].sources) :
        Watches(links[id].sources[i].obs, p) =>
            Len(links[id].sources[i].obs.queue) < MaxQueue

Emit(L, type, p, q, is_directory) ==
    [id \in DOMAIN L |->
        [L[id] EXCEPT !.sources =
            [i \in 1..Len(L[id].sources) |->
                LET o == L[id].sources[i].obs
                IN  IF Watches(o, p) \/ (q # <<>> /\ Watches(o, q))
                    THEN [L[id].sources[i] EXCEPT
                            !.obs.queue = Append(@, Event(type, AsSeen(o, p), AsSeen(o, q),
                                                          is_directory))]
                    ELSE L[id].sources[i]]]]

RealDirKey(F, p) == p \in DOMAIN F /\ F[p].k = "dir"

EnvCreate(p, is_directory) ==
    /\ last.env < MaxEnvOps
    /\ p \notin DOMAIN fs /\ RealDirKey(fs, Parent(p)) /\ QueueRoom(p)
    /\ Len(p) = 2 \/ ~is_directory
    /\ fs' = With(fs, p, IF is_directory THEN Dir ELSE File("u"))
    /\ links' = Emit(links, "created", p, <<>>, is_directory)
    /\ last' = [EnvOp("env_create") EXCEPT !.src = p, !.born = @ \cup {p}]
    /\ UNCHANGED <<ui, rs, now>>

EnvDelete(p) ==
    /\ last.env < MaxEnvOps
    /\ p \in DOMAIN fs /\ QueueRoom(p)
    /\ fs' = [k \in DOMAIN fs \ ({p} \cup Under(fs, p)) |-> fs[k]]
    /\ links' = Emit(links, "deleted", p, <<>>, FALSE)
    /\ last' = [EnvOp("env_delete") EXCEPT !.src = p]
    /\ UNCHANGED <<ui, rs, now>>

EnvModify(p) ==
    /\ last.env < MaxEnvOps
    /\ p \in DOMAIN fs /\ fs[p].k = "file" /\ QueueRoom(p)
    /\ links' = Emit(links, "modified", p, <<>>, FALSE)
    /\ last' = [EnvOp("env_modify") EXCEPT !.src = p]
    /\ UNCHANGED <<fs, ui, rs, now>>

Moved(F, p, q) ==
    LET gone == {p} \cup Under(F, p)
        Into(k) == q \o SubSeq(k, Len(p) + 1, Len(k))
        came == {Into(k) : k \in gone}
    IN  [k \in (DOMAIN F \ gone) \cup came |->
            IF k \in came THEN F[CHOOSE g \in gone : Into(g) = k] ELSE F[k]]

(* the user moves or renames p to q inside one source *)
MoveEntry(p, q) ==
    /\ last.env < MaxEnvOps
    /\ p \in DOMAIN fs /\ q \notin DOMAIN fs /\ p[1] = q[1]
    /\ RealDirKey(fs, Parent(q)) /\ Parent(q) # p
    /\ QueueRoom(p) /\ QueueRoom(q)
    /\ fs' = Moved(fs, p, q)
    /\ links' = Emit(links, "moved", p, q, fs[p].k = "dir")
    /\ last' = [EnvOp("env_move") EXCEPT !.src = p, !.tgt = q]
    /\ UNCHANGED <<ui, rs, now>>

(* the moves of SpecWatch: a directory stays at the top of its source *)
EnvMove(p, q) ==
    /\ p \in DOMAIN fs
    /\ fs[p].k = "file" \/ Len(q) = 2
    /\ MoveEntry(p, q)

(* the user deletes a link from the target directory by hand *)
TamperDelete(n) ==
    /\ last.env < MaxEnvOps
    /\ Append(T, n) \in DOMAIN fs /\ IsLinkEntry(fs[Append(T, n)])
    /\ fs' = Without(fs, Append(T, n))
    /\ last' = [EnvOp("tamper_delete") EXCEPT !.tgt = Append(T, n),
                                             !.lost = @ \cup {Append(T, n)}]
    /\ UNCHANGED <<links, ui, rs, now>>

(***************************************************************************)
(* An Observer's thread takes the next event of its queue to the handler.  *)
(* An exception that leaves the handler ends the thread.                   *)
(***************************************************************************)
Deliver(id, i, type, name) ==
    /\ id \in DOMAIN links /\ i \in 1..Len(links[id].sources)
    /\ LET o == links[id].sources[i].obs
       IN  /\ o.alive /\ o.queue # <<>> /\ Head(o.queue).type = type
           /\ \E r \in {dispatch(fs, links, o, Head(o.queue))} :
                  /\ fs' = r.fs
                  /\ links' = [r.links EXCEPT ![id].sources[i].obs.queue = Tail(@),
                                              ![id].sources[i].obs.alive = r.err = "ok"]
                  /\ last' = [Op(name) EXCEPT !.id = id, !.ev = Head(o.queue),
                                              !.err = r.err,
                                              !.src = o.source, !.tgt = o.target]
    /\ UNCHANGED <<ui, rs, now>>

OnCreated(id, i) == Deliver(id, i, "created", "on_created")
OnDeleted(id, i) == Deliver(id, i, "deleted", "on_deleted")
OnModified(id, i) == Deliver(id, i, "modified", "on_modified")
OnMoved(id, i) == Deliver(id, i, "moved", "on_moved")

(***************************************************************************)
(* SymSyncApp.rescan_active_links, the reconciliation thread.              *)
(***************************************************************************)
MaxTicks == 1         \* seconds a run lasts

(* `while not self.stop_event.is_set(): current_time = time.time()` *)
RescanSample ==
    /\ rs.pc = "top"
    /\ rs' = IF ui.stop_event THEN [rs EXCEPT !.pc = "exited"]
             ELSE [rs EXCEPT !.pc = "sleep", !.time = now]
    /\ last' = Op("rescan_sample")
    /\ UNCHANGED <<fs, links, ui, now>>

(* ten sleeps of 0.1 s, then `for link in list(self.links.values())`; the *)
(* run is followed until the clock shows limit                             *)
RescanSleepUntil(limit) ==
    /\ rs.pc = "sleep"
    /\ now < limit
    /\ now' = now + 1
    /\ rs' = IF ui.stop_event THEN [rs EXCEPT !.pc = "exited"]
             ELSE [rs EXCEPT !.pc = "links", !.links = IdsOf(links)]
    /\ last' = Op("rescan_sleep")
    /\ UNCHANGED <<fs, links, ui>>

RescanSleep == RescanSleepUntil(StartTime + MaxTicks)

(* a variant that waits for more than the interval *)
RescanDueLater(link, current_time) ==
    link.is_active /\ current_time - link.last_rescan > link.rescan_interval

(* a variant that rescans an active configuration in every pass *)
RescanDueAlways(link, current_time) == link.is_active

RescanDue(link, current_time) ==
    link.is_active /\ ~(current_time - link.last_rescan < link.rescan_interval)

(* one turn of the loop over the links, up to the loop over the sources *)
RescanLink ==
    /\ rs.pc = "links"
    /\ IF rs.links = <<>> THEN rs' = [rs EXCEPT !.pc = "top"] /\ links' = links
       ELSE LET id == Head(rs.links)
            IN  IF id \in DOMAIN links /\ RescanDue(links[id], rs.time)
                THEN /\ links' = [links EXCEPT ![id].last_rescan = rs.time]
                     /\ rs' = [rs EXCEPT !.pc = "sources", !.link = id,
                                         !.sources = SourcePaths(links[id])]
                ELSE /\ links' = links
                     /\ rs' = [rs EXCEPT !.links = Tail(@)]
    /\ last' = [Op("rescan_link") EXCEPT !.id = IF rs.links = <<>> THEN "" ELSE Head(rs.links),
                                        !.total = 0, !.lines = 0]
    /\ UNCHANGED <<fs, ui, now>>

(* a variant that reports only a count above 1 *)
RescanReportMany(L, id, count) ==
    IF count > 1 THEN update_link_status(L, id, Msg("Rescan restored", count, <<>>)) ELSE L

RescanReport(L, id, count) ==
    IF count > 0 THEN update_link_status(L, id, Msg("Rescan restored", count, <<>>)) ELSE L

(* one turn of the loop over the sources of rs.link: the merge of a source *)
RescanSource ==
    /\ rs.pc = "sources"
    /\ IF rs.sources = <<>> \/ rs.link \notin DOMAIN links
       THEN /\ rs' = [rs EXCEPT !.pc = "links", !.links = Tail(@), !.sources = <<>>]
            /\ UNCHANGED <<fs, links>>
            /\ last' = [Op("rescan_source") EXCEPT !.id = rs.link, !.err = "done"]
       ELSE \E source \in {Head(rs.sources)},
               m \in {merge_directory_contents(fs, Head(rs.sources),
                                               links[rs.link].target_path)} :
                /\ fs' = m.fs
                /\ links' = IF m.err = "ok" THEN RescanReport(links, rs.link, m.count)
                            ELSE links
                /\ rs' = [rs EXCEPT !.sources = Tail(@)]
                /\ last' = [Op("rescan_source") EXCEPT
                               !.id = rs.link, !.src = source,
                               !.tgt = links[rs.link].target_path,
                               !.count = m.count, !.err = m.err,
                               !.total = IF m.err = "ok" THEN @ + m.count ELSE @,
                               !.lines = IF m.err = "ok"
                                            /\ RescanReport(links, rs.link, m.count) # links
                                         THEN @ + 1 ELSE @]
    /\ UNCHANGED <<ui, now>>

(***************************************************************************)
(* SpecWatch: one configuration, loaded active, mirrors s1 and s2 into t   *)
(* while the user changes the sources and removes links from the target.   *)
(***************************************************************************)
WatchSrcShapes ==
    {[k |-> "none", kids |-> {}], [k |-> "file", kids |-> {}],
     [k |-> "dir", kids |-> {}], [k |-> "dir", kids |-> {"x"}]}

WatchTgtShapes ==
    {[k |-> kk, kids |-> [n \in SubNames |-> "none"]] : kk \in {"none", "file", "dir"}}
    \cup {[k |-> "dir", kids |-> [n \in SubNames |-> IF n = "y" THEN "file" ELSE "none"]]}

WatchTrees ==
    {MapOf({<<S1, Dir>>, <<S2, Dir>>, <<T, Dir>>}
           \cup SrcItem(S1, "a", sa) \cup SrcItem(S2, "a", sb) \cup TgtItem("a", ta)) :
        sa \in WatchSrcShapes, sb \in WatchSrcShapes \ {[k |-> "dir", kids |-> {}]},
        ta \in WatchTgtShapes}

WatchRecord == SavedRecord("L1", T, <<S1, S2>>, TRUE, 1)

InitWatch ==
    /\ now = StartTime
    /\ \E tree \in WatchTrees :
          \E r \in {load_settings(tree, <<>>, <<WatchRecord>>)} :
              fs = r.fs /\ links = r.links
    /\ ui = [NoUi EXCEPT !.used = {"L1"}, !.saved = <<WatchRecord>>]
    /\ rs = NoThread
    /\ last = NoOp

Slots == {1, 2}

NextWatch ==
    \/ \E p \in EnvPaths, d \in BOOLEAN : EnvCreate(p, d)
    \/ \E p \in EnvPaths : EnvDelete(p)
    \/ \E p \in EnvPaths : EnvModify(p)
    \/ \E p \in EnvPaths, q \in MovePaths : EnvMove(p, q)
    \/ \E n \in TopNames : TamperDelete(n)
    \/ \E id \in DOMAIN links, i \in Slots : OnCreated(id, i)
    \/ \E id \in DOMAIN links, i \in Slots : OnDeleted(id, i)
    \/ \E id \in DOMAIN links, i \in Slots : OnModified(id, i)
    \/ \E id \in DOMAIN links, i \in Slots : OnMoved(id, i)
    \/ RescanSample
    \/ RescanSleep
    \/ RescanLink
    \/ RescanSource

SpecWatch == InitWatch /\ [][NextWatch]_vars

(***************************************************************************)
(* The operations of the window.  set_controls_state enables the controls  *)
(* of the right pane while a configuration is selected.                    *)
(***************************************************************************)
MaxUiOps == 4         \* operations of the window in a run
SavedLogs == 50

U == <<"u">>

to_dict(id, link) ==
    [id |-> id, name |-> link.name, target_path |-> link.target_path,
     sources |-> SourcePaths(link),
     is_active |-> link.is_active,
     logs |-> IF Len(link.logs) > SavedLogs
              THEN SubSeq(link.logs, Len(link.logs) - SavedLogs + 1, Len(link.logs))
              ELSE link.logs,
     rescan_interval |-> link.rescan_interval]

save_settings(L) == [i \in 1..Len(IdsOf(L)) |-> to_dict(IdsOf(L)[i], L[IdsOf(L)[i]])]

(* root.destroy() closes the window; stop_event is set from then on *)
WindowOpen == ~ui.stop_event

ControlsEnabled == WindowOpen /\ ui.selected # "" /\ ui.selected \in DOMAIN links

(* str(uuid.uuid4())[:8]: an id no configuration had before *)
NewId ==
    LinkIds[CHOOSE i \in 1..Len(LinkIds) :
                /\ LinkIds[i] \notin ui.used
                /\ \A j \in 1..(i - 1) : LinkIds[j] \in ui.used]

create_new_link ==
    /\ last.run < MaxUiOps
    /\ WindowOpen
    /\ \E i \in 1..Len(LinkIds) : LinkIds[i] \notin ui.used
    /\ \E id \in {NewId} :
         \E L1 \in {[x \in DOMAIN links \cup {id} |->
                        IF x = id
                        THEN LinkConfiguration(LinkName(Cardinality(DOMAIN links) + 1), <<>>)
                        ELSE links[x]]} :
            /\ links' = L1
            /\ ui' = [ui EXCEPT !.selected = id, !.target_var = <<>>,
                                !.used = @ \cup {id}, !.saved = save_settings(L1)]
            /\ last' = [Move("create_new_link") EXCEPT !.id = id]
    /\ UNCHANGED <<fs, rs, now>>

select_link(link_id) ==
    /\ last.run < MaxUiOps
    /\ WindowOpen
    /\ link_id \in DOMAIN links
    /\ ui' = [ui EXCEPT !.selected = link_id, !.target_var = links[link_id].target_path]
    /\ last' = [Move("select_link") EXCEPT !.id = link_id]
    /\ UNCHANGED <<fs, links, rs, now>>

(* the user types into target_entry, whose textvariable is target_var *)
edit_target(text) ==
    /\ last.run < MaxUiOps
    /\ ControlsEnabled
    /\ ui' = [ui EXCEPT !.target_var = text]
    /\ last' = [Move("edit_target") EXCEPT !.id = ui.selected, !.tgt = text]
    /\ UNCHANGED <<fs, links, rs, now>>

(* a variant that compares the paths as they are written *)
TargetUsedByOtherExact(L, selected, directory) ==
    \E link_id \in DOMAIN L :
        /\ link_id # selected
        /\ L[link_id].target_path # <<>>
        /\ directory = L[link_id].target_path

TargetUsedByOther(L, selected, directory) ==
    \E link_id \in DOMAIN L :
        /\ link_id # selected
        /\ L[link_id].target_path # <<>>
        /\ Key(directory) = Key(L[link_id].target_path)

(* directory is what askdirectory returned, <<>> when it was cancelled *)
browse_target(directory) ==
    /\ last.run < MaxUiOps
    /\ ControlsEnabled
    /\ IF directory = <<>> \/ TargetUsedByOther(links, ui.selected, directory)
       THEN /\ UNCHANGED <<links, ui>>
            /\ last' = [Move("browse_target") EXCEPT !.id = ui.selected, !.tgt = directory,
                                                     !.err = "refused"]
       ELSE \E L1 \in {[links EXCEPT ![ui.selected].target_path = directory]} :
                /\ links' = L1
                /\ ui' = [ui EXCEPT !.target_var = directory, !.saved = save_settings(L1)]
                /\ last' = [Move("browse_target") EXCEPT !.id = ui.selected,
                                                         !.tgt = directory]
    /\ UNCHANGED <<fs, rs, now>>

SourceRefused(link, directory) ==
    \/ link.target_path = <<>>
    \/ directory = <<>>
    \/ Key(directory) = Key(link.target_path)
    \/ \E i \in 1..Len(link.sources) : Key(link.sources[i].path) = Key(directory)

(* On an active configuration the call of create_symlinks_for_source reads *)
(* self.update_status, which SymSyncApp does not have: AttributeError      *)
(* leaves the handler with the source added and no Observer started.       *)
add_source(directory) ==
    /\ last.run < MaxUiOps
    /\ ControlsEnabled
    /\ IF SourceRefused(links[ui.selected], directory)
       THEN /\ UNCHANGED <<links, ui>>
            /\ last' = [Move("add_source") EXCEPT !.id = ui.selected, !.src = directory,
                                                  !.err = "refused"]
       ELSE \E L1 \in {[links EXCEPT ![ui.selected].sources =
                            Append(@, [path |-> directory, obs |-> NoObserver])]} :
                /\ links' = L1
                /\ ui' = [ui EXCEPT !.saved = save_settings(L1)]
                /\ last' = [Move("add_source") EXCEPT
                               !.id = ui.selected, !.src = directory,
                               !.err = IF links[ui.selected].is_active THEN "raised"
                                       ELSE "ok"]
    /\ UNCHANGED <<fs, rs, now>>

start_link ==
    /\ last.run < MaxUiOps
    /\ ControlsEnabled
    /\ \E id \in {ui.selected} :
       \E L0 \in {[links EXCEPT ![id].target_path = ui.target_var]} :
          IF L0[id].target_path = <<>> \/ L0[id].sources = <<>> \/ L0[id].is_active
          THEN /\ links' = L0
               /\ UNCHANGED <<fs, ui>>
               /\ last' = [Move("start_link") EXCEPT !.id = id, !.tgt = ui.target_var,
                                                     !.err = "refused"]
          ELSE \E w \in {WatchSources(fs, update_link_status(L0, id, Msg("Starting", 0, <<>>)),
                                      id, 1)} :
                  IF w.err # "ok"
                  THEN /\ fs' = w.fs
                       /\ links' = w.links
                       /\ UNCHANGED ui
                       /\ last' = [Move("start_link") EXCEPT !.id = id, !.tgt = ui.target_var,
                                                             !.err = w.err,
                                                             !.halted = @ \ {id}]
                  ELSE \E L2 \in {update_link_status(
                                      [w.links EXCEPT ![id].is_active = TRUE], id,
                                      Msg("Watching", Len(L0[id].sources), <<>>))} :
                          /\ fs' = w.fs
                          /\ links' = L2
                          /\ ui' = [ui EXCEPT !.saved = save_settings(L2)]
                          /\ last' = [Move("start_link") EXCEPT !.id = id,
                                                                !.tgt = ui.target_var,
                                                                !.halted = @ \ {id}]
    /\ UNCHANGED <<rs, now>>

(* a variant that leaves the Observers where they are *)
StoppedNone(sources) == sources

(* observer.stop(); observer.join(); link.sources[source] = None *)
Stopped(sources) == [i \in 1..Len(sources) |-> [sources[i] EXCEPT !.obs = NoObserver]]

stop_link ==
    /\ last.run < MaxUiOps
    /\ ControlsEnabled
    /\ \E id \in {ui.selected} :
          IF ~links[id].is_active
          THEN /\ UNCHANGED <<links, ui>>
               /\ last' = [Move("stop_link") EXCEPT !.id = id, !.err = "refused",
                                                    !.halted = @ \cup {id}]
          ELSE \E L2 \in {update_link_status(
                              [links EXCEPT ![id].sources = Stopped(links[id].sources),
                                            ![id].is_active = FALSE],
                              id, Msg("Stopped", 0, <<>>))} :
                  /\ links' = L2
                  /\ ui' = [ui EXCEPT !.saved = save_settings(L2)]
                  /\ last' = [Move("stop_link") EXCEPT !.id = id, !.halted = @ \cup {id}]
    /\ UNCHANGED <<fs, rs, now>>

(* observer.stop(); observer.join(): the thread has ended, the source goes *)
(* on naming it                                                            *)
Joined(sources) == [i \in 1..Len(sources) |-> [sources[i] EXCEPT !.obs.alive = FALSE]]

cleanup_and_exit ==
    /\ WindowOpen
    /\ ui' = [ui EXCEPT !.stop_event = TRUE]
    /\ links' = [id \in DOMAIN links |-> [links[id] EXCEPT !.sources = Joined(@)]]
    /\ last' = Op("cleanup_and_exit")
    /\ UNCHANGED <<fs, rs, now>>

(***************************************************************************)
(* SpecApp: the window over the configurations load_settings found in the  *)
(* settings file, each saved with a target no other record has.            *)
(***************************************************************************)
AppTrees ==
    {MapOf({<<S1, Dir>>, <<Append(S1, "a"), File("u")>>, <<T, Dir>>} \cup s2 \cup u) :
        s2 \in {{}, {<<S2, Dir>>, <<Append(S2, "b"), File("u")>>}},
        u \in {{}, {<<U, Dir>>}}}

AppSaved ==
    {<<>>}
    \cup {<<SavedRecord("L1", T, <<>>, FALSE, DefaultInterval)>>}
    \cup {<<SavedRecord("L1", T, srcs, act, DefaultInterval)>> :
            srcs \in {<<S1>>, <<S1, S2>>}, act \in BOOLEAN}
    \cup {<<SavedRecord("L1", T, <<S1>>, a1, DefaultInterval),
            SavedRecord("L2", U, <<S2>>, a2, DefaultInterval)>> : a1 \in BOOLEAN, a2 \in BOOLEAN}

TargetTexts == {<<>>, <<"T">>, U, <<"S1">>}
BrowseDirs == {<<>>, <<"T">>, U, S1}
SourceDirs == {<<>>, S2, <<"S1">>, T}

InitApp ==
    /\ now = StartTime
    /\ \E tree \in AppTrees, saved \in AppSaved :
          \E r \in {load_settings(tree, <<>>, saved)} :
              /\ fs = r.fs
              /\ links = r.links
              /\ ui = [NoUi EXCEPT !.used = DOMAIN r.links, !.saved = saved]
    /\ rs = NoThread
    /\ last = NoOp

NextApp ==
    \/ create_new_link
    \/ \E link_id \in DOMAIN links : select_link(link_id)
    \/ \E text \in TargetTexts : edit_target(text)
    \/ \E directory \in BrowseDirs : browse_target(directory)
    \/ \E directory \in SourceDirs : add_source(directory)
    \/ start_link
    \/ stop_link

SpecApp == InitApp /\ [][NextApp]_vars

(***************************************************************************)
(* SpecLog: the window over one configuration whose saved log is empty or  *)
(* close to the limit, as to_dict wrote it.                                *)
(***************************************************************************)
OldLogs(n) == [i \in 1..n |-> [at |-> 0, msg |-> Msg("Saved", i, <<>>)]]

LogLengths == {0, LogLimit - 2, LogLimit - 1, LogLimit}

LogTree ==
    MapOf({<<S1, Dir>>, <<Append(S1, "a"), File("u")>>, <<T, Dir>>,
           <<S2, Dir>>, <<Append(S2, "b"), File("u")>>})

LogSaved ==
    {<<[SavedRecord("L1", T, <<S1>>, act, DefaultInterval) EXCEPT !.logs = OldLogs(n)]>> :
        n \in LogLengths, act \in BOOLEAN}

InitLog ==
    /\ now = StartTime
    /\ \E saved \in LogSaved :
          \E r \in {load_settings(LogTree, <<>>, saved)} :
              /\ fs = r.fs
              /\ links = r.links
              /\ ui = [NoUi EXCEPT !.used = DOMAIN r.links, !.saved = saved]
    /\ rs = NoThread
    /\ last = NoOp

SpecLog == InitLog /\ [][NextApp]_vars

(***************************************************************************)
(* SpecSession: one saved configuration with sources s1 and s2, where s2   *)
(* may have become a file; the window, the Observer threads and the        *)
(* reconciliation thread run side by side until the program is closed.     *)
(***************************************************************************)
SessionTrees ==
    {MapOf({<<S1, Dir>>, <<T, Dir>>} \cup a \cup s2) :
        a \in {{}, {<<Append(S1, "a"), File("u")>>}},
        s2 \in {{<<S2, Dir>>}, {<<S2, File("u")>>}}}

SessionSaved == {<<SavedRecord("L1", T, <<S1, S2>>, act, 1)>> : act \in BOOLEAN}

InitSession ==
    /\ now = StartTime
    /\ \E tree \in SessionTrees, saved \in SessionSaved :
          \E r \in {load_settings(tree, <<>>, saved)} :
              /\ fs = r.fs
              /\ links = r.links
              /\ ui = [NoUi EXCEPT !.used = DOMAIN r.links, !.saved = saved]
    /\ rs = NoThread
    /\ last = NoOp

NextSession ==
    \/ \E link_id \in DOMAIN links : select_link(link_id)
    \/ start_link
    \/ stop_link
    \/ cleanup_and_exit
    \/ EnvCreate(Append(S1, "b"), FALSE)
    \/ EnvDelete(Append(S1, "a"))
    \/ \E id \in DOMAIN links, i \in Slots : OnCreated(id, i)
    \/ \E id \in DOMAIN links, i \in Slots : OnDeleted(id, i)
    \/ RescanSample
    \/ RescanSleep
    \/ RescanLink
    \/ RescanSource

SpecSession == InitSession /\ [][NextSession]_vars

(***************************************************************************)
(* SpecDict: to_dict and from_dict applied to configurations of every      *)
(* shape, logs longer than the limit among them.                           *)
(***************************************************************************)
rescan_options == {1, 10, 3600}

DictLogLengths == {0, 1, LogLimit, LogLimit + 1, LogLimit + 2}

DictSources == {<<>>, <<S1>>, <<S1, S2>>, <<S2, <<"S1">>>>}

Watched(paths, target, id, live) ==
    [i \in 1..Len(paths) |->
        [path |-> paths[i],
         obs |-> IF live THEN Observer(paths[i], target, id) ELSE NoObserver]]

DictConfigs ==
    {[LinkConfiguration(name, target) EXCEPT
         !.sources = Watched(paths, target, "L1", act),
         !.is_active = act,
         !.status = Msg("Stopped", 0, <<>>),
         !.logs = OldLogs(n),
         !.rescan_interval = interval,
         !.last_rescan = StartTime] :
        name \in {LinkName(1), <<"New Link">>}, target \in {<<>>, T, <<"T", "">>},
        paths \in DictSources, act \in BOOLEAN, n \in DictLogLengths,
        interval \in rescan_options}

InitDict ==
    /\ now = StartTime
    /\ fs = LogTree
    /\ \E c \in DictConfigs : links = [id \in {"L1"} |-> c]
    /\ ui = [NoUi EXCEPT !.used = {"L1"}]
    /\ rs = NoThread
    /\ last = NoOp

(* save_settings writes link.to_dict() for every configuration and        *)
(* LinkConfiguration.from_dict reads each record back                      *)
RoundTrip ==
    /\ last.op = "none"
    /\ \E records \in {save_settings(links)} :
          /\ ui' = [ui EXCEPT !.saved = records]
          /\ links' = [id \in {records[k].id : k \in 1..Len(records)} |->
                          from_dict(records[CHOOSE k \in 1..Len(records) :
                                                records[k].id = id])]
    /\ last' = Op("round_trip")
    /\ UNCHANGED <<fs, rs, now>>

NextDict == RoundTrip

SpecDict == InitDict /\ [][NextDict]_vars

(***************************************************************************)
(* SpecRace: the Observer's thread is in on_created for a new item of s1   *)
(* while the reconciliation thread merges s1 into t.  Each thread takes    *)
(* one step per test of the filesystem and one per command, so that the    *)
(* other thread can act between a test and the command that follows it.    *)
(***************************************************************************)
(* a variant that lets the failure of the command leave as an exception *)
ExecuteChecked(result) ==
    [fs |-> result.fs, ok |-> result.ok, err |-> IF result.ok THEN "ok" ELSE "raised"]

(* execute_admin_command(cmd): False when the command wrote to stderr, and *)
(* no exception leaves it                                                  *)
execute_admin_command(result) == [fs |-> result.fs, ok |-> result.ok, err |-> "ok"]

RaceLink == "L1"

RaceObs == links[RaceLink].sources[1].obs

RaceEvent == Head(RaceObs.queue)

RaceTargetPath == Join(RaceObs.target, BaseName(RaceEvent.src_path))

RaceStep(name) == [Op(name) EXCEPT !.id = RaceLink, !.ev = RaceEvent]

(* on_created up to the test that chooses between merging and linking *)
CreatedTest ==
    /\ RaceObs.alive /\ RaceObs.pc = "idle" /\ RaceObs.queue # <<>>
    /\ RaceEvent.type = "created"
    /\ links' =
         IF ~_is_direct_child(RaceObs.source, RaceEvent.src_path)
         THEN [links EXCEPT ![RaceLink].sources[1].obs.queue = Tail(@)]
         ELSE IF /\ LExists(fs, RaceTargetPath) /\ RaceEvent.is_directory
                 /\ IsDir(fs, RaceTargetPath)
              THEN [links EXCEPT ![RaceLink].sources[1].obs.pc = "merge"]
              ELSE [links EXCEPT ![RaceLink].sources[1].obs.pc = "exists"]
    /\ last' = RaceStep("created_test")
    /\ UNCHANGED <<fs, ui, rs, now>>

(* `if os.path.lexists(target_path): return` *)
CreatedExists ==
    /\ RaceObs.alive /\ RaceObs.pc = "exists"
    /\ links' =
         IF LExists(fs, RaceTargetPath)
         THEN [links EXCEPT ![RaceLink].sources[1].obs.queue = Tail(@),
                            ![RaceLink].sources[1].obs.pc = "idle"]
         ELSE [links EXCEPT ![RaceLink].sources[1].obs.pc = "mklink"]
    /\ last' = RaceStep("created_exists")
    /\ UNCHANGED <<fs, ui, rs, now>>

(* update_status("Created: ...") and the mklink of the handler *)
CreatedMklink ==
    /\ RaceObs.alive /\ RaceObs.pc = "mklink"
    /\ \E r \in {execute_admin_command(MkLink(fs, RaceTargetPath, RaceEvent.src_path,
                                              RaceEvent.is_directory))} :
          /\ fs' = r.fs
          /\ links' = [update_link_status(links, RaceLink,
                                          Msg("Created", 0, <<BaseName(RaceEvent.src_path)>>))
                         EXCEPT ![RaceLink].sources[1].obs.queue = Tail(@),
                                ![RaceLink].sources[1].obs.pc = "idle",
                                ![RaceLink].sources[1].obs.alive = (r.err = "ok")]
          /\ last' = [RaceStep("created_mklink") EXCEPT
                         !.err = IF r.ok THEN "ok" ELSE "failed"]
    /\ UNCHANGED <<ui, rs, now>>

(* update_status("Merging: ...") and the merge of the handler *)
CreatedMerge ==
    /\ RaceObs.alive /\ RaceObs.pc = "merge"
    /\ \E m \in {merge_directory_contents(fs, RaceEvent.src_path, RaceTargetPath)} :
          /\ fs' = m.fs
          /\ links' = [update_link_status(links, RaceLink,
                                          Msg("Merging", 0, <<BaseName(RaceEvent.src_path)>>))
                         EXCEPT ![RaceLink].sources[1].obs.queue = Tail(@),
                                ![RaceLink].sources[1].obs.pc = "idle",
                                ![RaceLink].sources[1].obs.alive = (m.err = "ok")]
          /\ last' = [RaceStep("created_merge") EXCEPT !.err = m.err, !.count = m.count]
    /\ UNCHANGED <<ui, rs, now>>

MergeSource == Head(rs.sources)

(* merge_directory_contents up to os.listdir(source_dir) *)
MergeBegin ==
    /\ rs.pc = "merge"
    /\ \E actual \in {MergeActualTarget(fs, links[rs.link].target_path)} :
       \E made \in {EnsureDir(fs, actual)} :
          /\ fs' = made.fs
          /\ rs' = IF ~made.ok \/ ~IsDir(made.fs, MergeSource)
                   THEN [rs EXCEPT !.pc = "merged", !.err = "raised"]
                   ELSE [rs EXCEPT !.pc = "item", !.actual = actual, !.count = 0,
                                   !.items = SortedNames(ListDir(made.fs, MergeSource))]
    /\ last' = [Op("merge_begin") EXCEPT !.id = rs.link, !.src = MergeSource]
    /\ UNCHANGED <<links, ui, now>>

(* the tests the loop makes for its next item, and the return after the   *)
(* last one, which the reconciliation thread reports                      *)
MergeTest ==
    /\ rs.pc = "item"
    /\ IF rs.items = <<>>
       THEN /\ rs' = [rs EXCEPT !.pc = "merged"]
            /\ links' = RescanReport(links, rs.link, rs.count)
            /\ fs' = fs
       ELSE LET source_path == Join(MergeSource, Head(rs.items))
                symlink_path == Join(rs.actual, Head(rs.items))
            IN  /\ links' = links
                /\ IF MergeOccupied(fs, symlink_path)
                   THEN IF MergeRecurses(fs, source_path, symlink_path)
                        THEN \E sub \in {Merge(fs, source_path, symlink_path,
                                               MaxRecursion - 1)} :
                                /\ fs' = sub.fs
                                /\ rs' = IF sub.err # "ok"
                                         THEN [rs EXCEPT !.pc = "merged", !.err = sub.err]
                                         ELSE [rs EXCEPT !.items = Tail(@),
                                                         !.count = @ + sub.count]
                        ELSE /\ fs' = fs
                             /\ rs' = [rs EXCEPT !.items = Tail(@)]
                   ELSE /\ fs' = fs
                        /\ rs' = [rs EXCEPT !.pc = "mklink",
                                            !.isdir = MergeLinkIsDir(fs, source_path)]
    /\ last' = [Op("merge_test") EXCEPT !.id = rs.link, !.src = MergeSource,
                                        !.count = rs.count]
    /\ UNCHANGED <<ui, now>>

(* the mklink of the loop, counted when it succeeds *)
MergeMklink ==
    /\ rs.pc = "mklink"
    /\ \E r \in {execute_admin_command(MkLink(fs, Join(rs.actual, Head(rs.items)),
                                              Join(MergeSource, Head(rs.items)),
                                              rs.isdir))} :
          /\ fs' = r.fs
          /\ rs' = IF r.err # "ok" THEN [rs EXCEPT !.pc = "merged", !.err = r.err]
                   ELSE [rs EXCEPT !.pc = "item", !.items = Tail(@),
                                   !.count = IF r.ok THEN @ + 1 ELSE @]
          /\ last' = [Op("merge_mklink") EXCEPT !.id = rs.link, !.src = MergeSource,
                                                !.err = IF r.ok THEN "ok" ELSE "failed"]
    /\ UNCHANGED <<links, ui, now>>

(* the new item a of s1, and an older item b whose link may be missing *)
RaceShapes == {[k |-> "file", kids |-> {}], [k |-> "dir", kids |-> {}],
               [k |-> "dir", kids |-> {"x"}]}

RaceOlder == {{}, {<<Append(S1, "b"), File("u")>>},
              {<<Append(S1, "b"), File("u")>>, <<Append(T, "b"), Link(Append(S1, "b"), FALSE)>>}}

InitRace ==
    /\ now = StartTime
    /\ \E sa \in RaceShapes, older \in RaceOlder :
          /\ fs = MapOf({<<S1, Dir>>, <<T, Dir>>} \cup SrcItem(S1, "a", sa) \cup older)
          /\ links = [id \in {RaceLink} |->
                        [LinkConfiguration(LinkName(1), T) EXCEPT
                            !.is_active = TRUE,
                            !.sources =
                               <<[path |-> S1,
                                  obs |-> [Observer(S1, T, RaceLink) EXCEPT
                                             !.queue = <<Event("created", Append(S1, "a"),
                                                               <<>>, sa.k = "dir")>>]]>>]]
    /\ ui = [NoUi EXCEPT !.used = {RaceLink}]
    /\ rs = [NoThread EXCEPT !.pc = "merge", !.time = StartTime, !.link = RaceLink,
                             !.sources = <<S1>>]
    /\ last = NoOp

NextRace ==
    \/ CreatedTest
    \/ CreatedExists
    \/ CreatedMklink
    \/ CreatedMerge
    \/ MergeBegin
    \/ MergeTest
    \/ MergeMklink

SpecRace == InitRace /\ [][NextRace]_vars

(***************************************************************************)
(* Removing a source and deleting a configuration, with the cleanup of the *)
(* links the user may ask for.                                             *)
(***************************************************************************)
S1X == <<"s1x">>

(* str.startswith on one component: the names of the model of which one    *)
(* begins with the other                                                   *)
NameStartsWith(name, prefix) == name = prefix \/ <<name, prefix>> \in {<<"s1x", "s1">>}

(* a variant that compares whole components *)
StartsWithPath(path, prefix) ==
    /\ Len(path) >= Len(prefix)
    /\ SubSeq(path, 1, Len(prefix)) = prefix

(* normcase(normpath(path)).startswith(normcase(normpath(prefix))): the    *)
(* comparison is made on the text, so the last component of the prefix     *)
(* need only begin the component it meets                                  *)
StartsWith(path, prefix) ==
    \/ prefix = <<>>
    \/ /\ Len(path) >= Len(prefix)
       /\ SubSeq(path, 1, Len(prefix) - 1) = SubSeq(prefix, 1, Len(prefix) - 1)
       /\ NameStartsWith(path[Len(prefix)], prefix[Len(prefix)])

(* the body of the loop of cleanup_source_symlinks for one item *)
CleanupItem(F, source, full_path) ==
    IF IsLink(F, full_path) /\ StartsWith(Key(ReadLink(F, full_path)), Key(source))
    THEN execute_admin_command(IF IsDir(F, full_path) THEN RmDir(F, full_path)
                               ELSE Del(F, full_path)).fs
    ELSE F

RECURSIVE CleanupItems(_, _, _, _)
CleanupItems(F, source, target, items) ==
    IF items = <<>> THEN F
    ELSE CleanupItems(CleanupItem(F, source, Join(target, Head(items))), source, target,
                      Tail(items))

(* SymSyncApp.cleanup_source_symlinks(source, target): what os.listdir     *)
(* raises is caught                                                        *)
cleanup_source_symlinks(F, source, target) ==
    IF ~IsDir(F, target) THEN F
    ELSE CleanupItems(F, source, target, SortedNames(ListDir(F, target)))

RECURSIVE CleanupSources(_, _, _)
CleanupSources(F, sources, target) ==
    IF sources = <<>> THEN F
    ELSE CleanupSources(cleanup_source_symlinks(F, Head(sources), target), Tail(sources),
                        target)

(* a cleanup that has been run: the target and the source it was for *)
Cleaned(target, source) == [tgt |-> target, src |-> source]

DropAt(seq, i) == SubSeq(seq, 1, i - 1) \o SubSeq(seq, i + 1, Len(seq))

(* selection is the row chosen in sources_listbox, 0 when none is; cleanup *)
(* is the answer to "Remove symlinks created from this source?"            *)
remove_source(selection, cleanup) ==
    /\ last.run < MaxUiOps
    /\ ControlsEnabled
    /\ selection \in 0..Len(links[ui.selected].sources)
    /\ IF selection = 0
       THEN /\ UNCHANGED <<fs, links, ui>>
            /\ last' = [Move("remove_source") EXCEPT !.id = ui.selected, !.err = "refused"]
       ELSE \E link \in {links[ui.selected]} :
            \E source \in {link.sources[selection].path} :
            \E L1 \in {[links EXCEPT ![ui.selected].sources = DropAt(@, selection)]} :
               /\ fs' = IF cleanup THEN cleanup_source_symlinks(fs, source, link.target_path)
                        ELSE fs
               /\ links' = L1
               /\ ui' = [ui EXCEPT !.saved = save_settings(L1)]
               /\ last' = [Move("remove_source") EXCEPT
                              !.id = ui.selected, !.src = source, !.tgt = link.target_path,
                              !.again = cleanup,
                              !.cleaned = IF cleanup
                                          THEN @ \cup {Cleaned(link.target_path, source)}
                                          ELSE @]
    /\ UNCHANGED <<rs, now>>

(* sure and cleanup are the answers to "Are you sure you want to delete    *)
(* this link?" and "Remove all symlinks created in the target?"            *)
delete_link(sure, cleanup) ==
    /\ last.run < MaxUiOps
    /\ ControlsEnabled
    /\ IF ~sure
       THEN /\ UNCHANGED <<fs, links, ui>>
            /\ last' = [Move("delete_link") EXCEPT !.id = ui.selected, !.err = "refused"]
       ELSE \E link \in {links[ui.selected]} :
            \E asked \in {link.target_path # <<>> /\ Exists(fs, link.target_path)} :
            \E L1 \in {[id \in DOMAIN links \ {ui.selected} |-> links[id]]} :
               /\ fs' = IF asked /\ cleanup
                        THEN CleanupSources(fs, SourcePaths(link), link.target_path)
                        ELSE fs
               /\ links' = L1
               /\ ui' = [ui EXCEPT !.selected = "", !.target_var = <<>>,
                                   !.saved = save_settings(L1)]
               /\ last' = [Move("delete_link") EXCEPT
                              !.id = ui.selected, !.tgt = link.target_path,
                              !.again = asked /\ cleanup,
                              !.cleaned = IF asked /\ cleanup
                                          THEN @ \cup {Cleaned(link.target_path,
                                                               link.sources[i].path) :
                                                           i \in 1..Len(link.sources)}
                                          ELSE @]
    /\ UNCHANGED <<rs, now>>

(***************************************************************************)
(* SpecRemove: one saved configuration with source s1, a second source     *)
(* and target t.  The target may hold links into s1 and s2 (also inside a   *)
(* real directory a merge went into, and to an item that is gone), a link  *)
(* into the neighbouring directory s1x, and real files.  The second source *)
(* of the configuration is s2 or s1x.                                      *)
(***************************************************************************)
RemoveSrcShapes == {[k |-> "none", kids |-> {}], [k |-> "file", kids |-> {}],
                    [k |-> "dir", kids |-> {"x"}]}

RemoveTgtShapes ==
    {[k |-> kk, kids |-> [n \in SubNames |-> "none"]] : kk \in {"none", "file", "flink", "dlink"}}
    \cup {[k |-> "dir", kids |-> [n \in SubNames |-> IF n = "x" THEN kid ELSE "none"]] :
            kid \in {"none", "file", "link"}}

RemoveTrees ==
    {MapOf({<<S1, Dir>>, <<S2, Dir>>, <<S1X, Dir>>, <<T, Dir>>,
            <<Append(S2, "b"), File("u")>>, <<Append(S1X, "x"), File("u")>>}
           \cup SrcItem(S1, "a", sa) \cup TgtItem("a", ta) \cup tb \cup tx \cup ty) :
        sa \in RemoveSrcShapes, ta \in RemoveTgtShapes,
        tb \in {{}, {<<Append(T, "b"), Link(Append(S2, "b"), FALSE)>>}},
        tx \in {{}, {<<Append(T, "x"), Link(Append(S1X, "x"), FALSE)>>}},
        ty \in {{}, {<<Append(T, "y"), File("v")>>}}}

RemoveSaved ==
    {<<SavedRecord("L1", T, <<S1, other>>, act, 1)>> : other \in {S2, S1X}, act \in BOOLEAN}

InitRemove ==
    /\ now = StartTime
    /\ \E tree \in RemoveTrees, saved \in RemoveSaved :
          \E r \in {load_settings(tree, <<>>, saved)} :
              /\ fs = r.fs
              /\ links = r.links
              /\ ui = [NoUi EXCEPT !.used = DOMAIN r.links, !.saved = saved]
    /\ rs = NoThread
    /\ last = NoOp

NextRemove ==
    \/ \E link_id \in DOMAIN links : select_link(link_id)
    \/ start_link
    \/ stop_link
    \/ \E selection \in 0..2, cleanup \in BOOLEAN : remove_source(selection, cleanup)
    \/ \E sure \in BOOLEAN, cleanup \in BOOLEAN : delete_link(sure, cleanup)
    \/ EnvDelete(Append(S1, "a"))
    \/ \E id \in DOMAIN links, i \in Slots : OnDeleted(id, i)

SpecRemove == InitRemove /\ [][NextRemove]_vars

(***************************************************************************)
(* SpecRescan: the reconciliation thread over several passes.  L1 mirrors  *)
(* s1 and s2 into t every second, L2 mirrors s1 into u every ten seconds;  *)
(* either may have been saved inactive or be stopped by the user, links    *)
(* are deleted from t by hand, and time also passes while a pass runs.     *)
(***************************************************************************)
MaxPassTicks == 3     \* sleeps of the reconciliation thread in a run
MaxElapse == 12       \* seconds a run of SpecRescan lasts
LongWait == 9         \* seconds that pass at once

RescanTree ==
    MapOf({<<S1, Dir>>, <<S2, Dir>>, <<T, Dir>>, <<U, Dir>>,
           <<Append(S1, "a"), File("u")>>, <<Append(S2, "b"), File("u")>>})

RescanSaved ==
    {<<SavedRecord("L1", T, <<S1, S2>>, act1, 1), SavedRecord("L2", U, <<S1>>, act2, 10)>> :
        act1 \in BOOLEAN, act2 \in BOOLEAN}

InitRescan ==
    /\ now = StartTime
    /\ \E saved \in RescanSaved :
          \E r \in {load_settings(RescanTree, <<>>, saved)} :
              /\ fs = r.fs
              /\ links = r.links
              /\ ui = [NoUi EXCEPT !.used = DOMAIN r.links, !.saved = saved]
    /\ rs = NoThread
    /\ last = NoOp

(* the user picks an entry of rescan_combo *)
on_rescan_changed(interval) ==
    /\ last.run < MaxUiOps
    /\ ControlsEnabled
    /\ interval \in rescan_options
    /\ \E L1 \in {[links EXCEPT ![ui.selected].rescan_interval = interval]} :
          /\ links' = L1
          /\ ui' = [ui EXCEPT !.saved = save_settings(L1)]
    /\ last' = [Move("on_rescan_changed") EXCEPT !.id = ui.selected]
    /\ UNCHANGED <<fs, rs, now>>

(* time passes while the threads are busy or the machine sleeps *)
Elapse ==
    /\ now + LongWait <= StartTime + MaxElapse
    /\ now' = now + LongWait
    /\ last' = Op("elapse")
    /\ UNCHANGED <<fs, links, ui, rs>>

NextRescan ==
    \/ RescanSample
    \/ RescanSleepUntil(StartTime + MaxPassTicks)
    \/ RescanLink
    \/ RescanSource
    \/ Elapse
    \/ \E n \in TopNames : TamperDelete(n)
    \/ select_link("L1")
    \/ stop_link
    \/ \E interval \in {1, 10} : on_rescan_changed(interval)

SpecRescan == InitRescan /\ [][NextRescan]_vars

(***************************************************************************)
(* SpecMove: one active configuration mirrors s1 into t while files and    *)
(* directories are moved between the top of s1 and its subdirectory b.     *)
(***************************************************************************)
MoveSrcShapes == {[k |-> "none", kids |-> {}], [k |-> "file", kids |-> {}],
                  [k |-> "dir", kids |-> {}], [k |-> "dir", kids |-> {"x"}]}

MoveTgtShapes ==
    {[k |-> kk, kids |-> [n \in SubNames |-> "none"]] : kk \in {"none", "file"}}
    \cup {[k |-> "dir", kids |-> [n \in SubNames |-> IF n = "y" THEN "file" ELSE "none"]]}

MoveTrees ==
    {MapOf({<<S1, Dir>>, <<T, Dir>>, <<Append(S1, "b"), Dir>>}
           \cup SrcItem(S1, "a", sa) \cup TgtItem("a", ta) \cup by) :
        sa \in MoveSrcShapes, ta \in MoveTgtShapes,
        by \in {{}, {<<Append(S1, "b") \o <<"y">>, File("u")>>},
                {<<Append(S1, "b") \o <<"y">>, Dir>>}}}

MoveRecord == SavedRecord("L1", T, <<S1>>, TRUE, 1)

InitMove ==
    /\ now = StartTime
    /\ \E tree \in MoveTrees :
          \E r \in {load_settings(tree, <<>>, <<MoveRecord>>)} :
              /\ fs = r.fs
              /\ links = r.links
              /\ ui = [NoUi EXCEPT !.used = DOMAIN r.links, !.saved = <<MoveRecord>>]
    /\ rs = NoThread
    /\ last = NoOp

(* into b, out of b, and a rename at the top *)
MovePairs ==
    {<<Append(S1, "a"), Append(S1, "b") \o <<"a">>>>,
     <<Append(S1, "b") \o <<"y">>, Append(S1, "y")>>,
     <<Append(S1, "b") \o <<"a">>, Append(S1, "a")>>,
     <<Append(S1, "a"), Append(S1, "x")>>}

NextMove ==
    \/ \E pq \in MovePairs : MoveEntry(pq[1], pq[2])
    \/ \E id \in DOMAIN links, i \in Slots : OnMoved(id, i)

SpecMove == InitMove /\ [][NextMove]_vars

(***************************************************************************)
(* SpecLoop: merges of a source s1 whose directory a may hold a directory  *)
(* link x that leads back to a or to s1, into a target whose a may be a    *)
(* real directory, the link to s1/a, or a directory holding such a link.   *)
(***************************************************************************)
LoopSources ==
    {{<<Append(S1, "a"), Dir>>} \cup x \cup y :
        x \in {{}, {<<Append(S1, "a") \o <<"x">>, Dir>>},
               {<<Append(S1, "a") \o <<"x">>, Link(Append(S1, "a"), TRUE)>>},
               {<<Append(S1, "a") \o <<"x">>, Link(S1, TRUE)>>}},
        y \in {{}, {<<Append(S1, "a") \o <<"y">>, File("u")>>}}}

LoopTargets ==
    {{}, {<<Append(T, "a"), Link(Append(S1, "a"), TRUE)>>}}
    \cup {{<<Append(T, "a"), Dir>>} \cup x :
            x \in {{}, {<<Append(T, "a") \o <<"x">>, Dir>>},
                   {<<Append(T, "a") \o <<"x">>, Link(Append(T, "a"), TRUE)>>},
                   {<<Append(T, "a") \o <<"x">>, Link(T, TRUE)>>}}}

LoopTrees == {MapOf({<<S1, Dir>>, <<T, Dir>>} \cup src \cup tgt) :
                 src \in LoopSources, tgt \in LoopTargets}

InitLoop ==
    /\ fs \in LoopTrees
    /\ links = <<>>
    /\ ui = NoUi
    /\ rs = NoThread
    /\ now = StartTime
    /\ last = NoOp

NextLoop == CallMerge(S1)

SpecLoop == InitLoop /\ [][NextLoop]_vars

(***************************************************************************)
(* SpecPass: the reconciliation thread runs its passes over one active     *)
(* configuration (s1 and s2 into t, every second) while the user removes a *)
(* source or deletes the configuration.                                    *)
(***************************************************************************)
PassTrees ==
    {MapOf({<<S1, Dir>>, <<S2, Dir>>, <<T, Dir>>, <<Append(S2, "b"), File("u")>>}
           \cup SrcItem(S1, "a", sa)) :
        sa \in {[k |-> "file", kids |-> {}], [k |-> "dir", kids |-> {"x"}]}}

PassSaved == <<SavedRecord("L1", T, <<S1, S2>>, TRUE, 1)>>

InitPass ==
    /\ now = StartTime
    /\ \E tree \in PassTrees :
          \E r \in {load_settings(tree, <<>>, PassSaved)} :
              /\ fs = r.fs
              /\ links = r.links
              /\ ui = [NoUi EXCEPT !.used = DOMAIN r.links, !.saved = PassSaved]
    /\ rs = NoThread
    /\ last = NoOp

NextPass ==
    \/ RescanSample
    \/ RescanSleepUntil(StartTime + MaxPassTicks)
    \/ RescanLink
    \/ RescanSource
    \/ select_link("L1")
    \/ \E selection \in 0..2, cleanup \in BOOLEAN : remove_source(selection, cleanup)
    \/ \E sure \in BOOLEAN, cleanup \in BOOLEAN : delete_link(sure, cleanup)

SpecPass == InitPass /\ [][NextPass]_vars

(***************************************************************************)
(* SpecSettle: one active configuration mirrors s1 and s2 into t; the user *)
(* deletes direct children of the sources, the Observers' threads deliver  *)
(* the notifications and the reconciliation thread runs its passes.  The   *)
(* threads are scheduled fairly: an Observer's thread with an event in its *)
(* queue takes it, and the reconciliation thread takes its next step.      *)
(***************************************************************************)
SettleTrees ==
    {MapOf({<<S1, Dir>>, <<S2, Dir>>, <<T, Dir>>}
           \cup SrcItem(S1, "a", sa) \cup SrcItem(S2, "b", sb)) :
        sa \in {[k |-> "file", kids |-> {}], [k |-> "dir", kids |-> {"x"}]},
        sb \in {[k |-> "file", kids |-> {}], [k |-> "dir", kids |-> {}]}}

SettleSaved == <<SavedRecord("L1", T, <<S1, S2>>, TRUE, 1)>>

SettlePaths == {Append(S1, "a"), Append(S2, "b")}

InitSettle ==
    /\ now = StartTime
    /\ \E tree \in SettleTrees :
          \E r \in {load_settings(tree, <<>>, SettleSaved)} :
              /\ fs = r.fs
              /\ links = r.links
              /\ ui = [NoUi EXCEPT !.used = DOMAIN r.links, !.saved = SettleSaved]
    /\ rs = NoThread
    /\ last = NoOp

SettleSleep == RescanSleepUntil(StartTime + MaxPassTicks)

NextSettle ==
    \/ \E p \in SettlePaths : EnvDelete(p)
    \/ OnDeleted("L1", 1)
    \/ OnDeleted("L1", 2)
    \/ RescanSample
    \/ SettleSleep
    \/ RescanLink
    \/ RescanSource

FairSettle ==
    /\ WF_vars(OnDeleted("L1", 1))
    /\ WF_vars(OnDeleted("L1", 2))
    /\ WF_vars(RescanSample)
    /\ WF_vars(SettleSleep)
    /\ WF_vars(RescanLink)
    /\ WF_vars(RescanSource)

SpecSettle == InitSettle /\ [][NextSettle]_vars /\ FairSettle

(***************************************************************************)
(* Claims about merge_directory_contents, checked under SpecMerge.         *)
(***************************************************************************)

(* C2: a merge that repeats the call before it, which returned normally,   *)
(* with nothing changed in between, returns 0 and creates no link: the     *)
(* filesystem is the one it started from.                                  *)
C2_MergeIdempotent ==
    (last.op = "merge" /\ last.again) =>
        (last.err = "ok" /\ last.count = 0 /\ fs = last.pre)

C2_Witness ==
    last.op = "merge" /\ last.again /\ last.before > 0 /\ last.count = 0

(* C3: a name that is a real file in the target and also an item of the    *)
(* source is left as it was by merge: same type, same content, no link.    *)
C3_NonClobber ==
    last.op = "merge" =>
        \A n \in TopNames :
            (RealFileAt(last.pre, Join(T, n)) /\ LExists(last.pre, Join(last.src, n)))
                => (Join(T, n) \in DOMAIN fs /\ fs[Join(T, n)] = last.pre[Join(T, n)])

C3_Witness ==
    /\ last.op = "merge" /\ last.err = "ok" /\ last.count > 0
    /\ RealFileAt(last.pre, Join(T, "a")) /\ LExists(last.pre, Join(last.src, "a"))
    /\ fs[Join(T, "a")] = File("v")

(* C4: a directory of the source whose name is a real directory of the     *)
(* target is merged into it: the target's directory stays a real           *)
(* directory, every entry it held is unchanged, and every child of the     *)
(* source's directory whose name was free is now a link to that child.     *)
C4_MergeOverCollision ==
    (last.op = "merge" /\ last.err = "ok") =>
        \A n \in TopNames :
            (IsDir(last.pre, Join(last.src, n)) /\ RealDirAt(last.pre, Join(T, n))) =>
                /\ RealDirAt(fs, Join(T, n))
                /\ \A q \in Under(last.pre, Join(T, n)) : q \in DOMAIN fs /\ fs[q] = last.pre[q]
                /\ \A m \in ListDir(last.pre, Join(last.src, n)) :
                        Join(T, n) \o <<m>> \notin DOMAIN last.pre =>
                            /\ Join(T, n) \o <<m>> \in DOMAIN fs
                            /\ fs[Join(T, n) \o <<m>>] =
                                   Link(Join(last.src, n) \o <<m>>,
                                        IsDir(last.pre, Join(last.src, n) \o <<m>>))

C4_Witness ==
    /\ last.op = "merge" /\ last.src = S1
    /\ RealDirAt(last.pre, <<"t", "a">>)
    /\ <<"t", "a", "y">> \in DOMAIN last.pre /\ <<"t", "a", "x">> \notin DOMAIN last.pre
    /\ <<"s1", "a", "x">> \in DOMAIN last.pre
    /\ fs[<<"t", "a", "x">>] = Link(<<"s1", "a", "x">>, FALSE)
    /\ fs[<<"t", "a", "y">>] = File("v")

(***************************************************************************)
(* Claims about the handlers and the reconciliation thread, checked under  *)
(* SpecWatch.                                                              *)
(***************************************************************************)
HandlerOps == {"on_created", "on_deleted", "on_modified", "on_moved"}
EngineOps == HandlerOps \cup {"rescan_source"}

InTarget(q) == Len(q) >= 2 /\ q[1] = "t"

Kept(q) == q \in DOMAIN fs /\ fs[q] = last.pre[q]

(* C1: no handler and no reconciliation merge removes or replaces an entry *)
(* of the target directory that is a real file or a real directory.        *)
C1_RealEntriesKept ==
    last.op \in EngineOps =>
        \A q \in DOMAIN last.pre :
            (InTarget(q) /\ last.pre[q].k \in {"file", "dir"}) => Kept(q)

SameLogs ==
    \A id \in DOMAIN last.links :
        /\ id \in DOMAIN links
        /\ links[id].logs = last.links[id].logs
        /\ links[id].status = last.links[id].status

Healed(n) ==
    /\ Append(T, n) \in DOMAIN fs
    /\ fs[Append(T, n)] = Link(Join(last.src, n), IsDir(last.pre, Join(last.src, n)))

Restored(id) ==
    /\ Len(links[id].logs) > 0
    /\ links[id].logs[Len(links[id].logs)].msg = Msg("Rescan restored", last.count, <<>>)
    /\ last.count >= 1

RescanMerged == last.op = "rescan_source" /\ last.err = "ok"

(* C7: the merge a reconciliation pass runs for a source of an active      *)
(* configuration puts back the link of every item of the source whose name *)
(* is missing from the target (a link deleted by hand among them), and the *)
(* pass then logs "Rescan restored <count>" with a count of at least 1.    *)
C7_RescanHeals ==
    (RescanMerged /\ last.links[last.id].is_active) =>
        \A n \in TopNames :
            (LExists(last.pre, Join(last.src, n)) /\ ~LExists(last.pre, Append(T, n)))
                => (Healed(n) /\ Restored(last.id))

C7_Witness ==
    /\ RescanMerged /\ last.links[last.id].is_active
    /\ Append(T, "a") \in last.lost /\ ~LExists(last.pre, Append(T, "a"))
    /\ Healed("a") /\ Restored(last.id)

Deep(source, path) == path # <<>> => Len(NormPath(path)) >= Len(source) + 2

(* C8: a notification all of whose paths lie two or more levels below the  *)
(* watched source changes nothing in the filesystem and logs nothing.      *)
C8_DeepEventsIgnored ==
    (last.op \in HandlerOps /\ Deep(last.src, last.ev.src_path)
        /\ Deep(last.src, last.ev.dest_path))
        => (fs = last.pre /\ SameLogs)

C8_Witness ==
    /\ last.op = "on_moved"
    /\ Len(last.ev.src_path) = 3 /\ Len(last.ev.dest_path) = 3
    /\ fs = last.pre /\ SameLogs

NestedFiles(F, src, n) == {m \in SubNames : RealFileAt(F, Join(src, n) \o <<m>>)}

(* C9 as stated: after the merge of a pass, every file two levels deep in  *)
(* the source, inside a directory D that is mirrored in the target (as the *)
(* link to the source's D, or as a real directory), has a link at the same *)
(* nested path of the target.                                              *)
MirroredAs(F, src, n) ==
    IF RealDirAt(F, Append(T, n)) THEN "dir"
    ELSE IF Append(T, n) \in DOMAIN F /\ F[Append(T, n)] = Link(Join(src, n), TRUE)
         THEN "link"
    ELSE "no"

C9_NestedFileGetsLink ==
    (RescanMerged /\ last.links[last.id].is_active) =>
        \A n \in TopNames : \A m \in NestedFiles(last.pre, last.src, n) :
            (MirroredAs(last.pre, last.src, n) # "no"
                /\ Append(T, n) \o <<m>> \notin DOMAIN last.pre)
                => IsLink(fs, Append(T, n) \o <<m>>)

(* C9, amended: when D is a real directory of the target and the file's    *)
(* name is free in it, the merge makes the link there; when D is the link  *)
(* to the source's D, the merge makes no link: the nested target path is   *)
(* the file itself, seen through the directory link.                       *)
C9_NestedFileMirrored ==
    (RescanMerged /\ last.links[last.id].is_active) =>
        \A n \in TopNames : \A m \in NestedFiles(last.pre, last.src, n) :
            /\ (MirroredAs(last.pre, last.src, n) = "dir"
                    /\ Append(T, n) \o <<m>> \notin DOMAIN last.pre)
                => (/\ Append(T, n) \o <<m>> \in DOMAIN fs
                    /\ fs[Append(T, n) \o <<m>>] = Link(Join(last.src, n) \o <<m>>, FALSE))
            /\ MirroredAs(last.pre, last.src, n) = "link"
                => (/\ Stat(fs, Append(T, n) \o <<m>>) = Key(Join(last.src, n) \o <<m>>)
                    /\ ~IsLink(fs, Append(T, n) \o <<m>>))

C9_Witness ==
    /\ RescanMerged /\ last.src = S1
    /\ <<"s1", "a", "x">> \in last.born
    /\ MirroredAs(last.pre, S1, "a") = "dir"
    /\ <<"t", "a", "x">> \notin DOMAIN last.pre
    /\ fs[<<"t", "a", "x">>] = Link(<<"s1", "a", "x">>, FALSE)

FileRename ==
    /\ last.op = "on_moved" /\ ~last.ev.is_directory
    /\ _is_direct_child(last.src, last.ev.src_path)
    /\ _is_direct_child(last.src, last.ev.dest_path)

OldName == Join(last.tgt, BaseName(last.ev.src_path))
NewName == Join(last.tgt, BaseName(last.ev.dest_path))

MovedOver ==
    /\ ~LExists(fs, OldName)
    /\ Key(NewName) \in DOMAIN fs
    /\ fs[Key(NewName)] = Link(last.ev.dest_path, FALSE)

C5_ActiveTargetsUnique ==
    \A a \in DOMAIN links : \A b \in DOMAIN links :
        (a # b /\ links[a].is_active /\ links[b].is_active)
            => Key(links[a].target_path) # Key(links[b].target_path)

(* C6: while a configuration is active, every one of its sources has a     *)
(* live Observer.                                                          *)
C6_ActiveSourcesWatched ==
    \A id \in DOMAIN links :
        links[id].is_active =>
            \A i \in 1..Len(links[id].sources) : links[id].sources[i].obs.alive

(***************************************************************************)
(* Claims about the logs, checked under SpecLog.                           *)
(***************************************************************************)

(* new is old with k entries appended, each append evicting the oldest     *)
(* entry when it made the log longer than LogLimit                         *)
LogsFollow(old, new) ==
    \E k \in 0..Len(new) :
        \E d \in {IF Len(old) + k > LogLimit THEN Len(old) + k - LogLimit ELSE 0} :
            /\ Len(new) = Len(old) + k - d
            /\ d <= Len(old)
            /\ \A j \in 1..(Len(old) - d) : new[j] = old[j + d]

(* C11: every configuration's log holds at most 50 entries; an operation   *)
(* leaves the log it found, in order, followed by the entries it appended, *)
(* less as many of the oldest entries as the total exceeded 50 by.  A log  *)
(* loaded from a saved record is bounded in the same way.                  *)
C11_LogBounded ==
    \A id \in DOMAIN links :
        /\ Len(links[id].logs) <= LogLimit
        /\ id \in DOMAIN last.links => LogsFollow(last.links[id].logs, links[id].logs)

C11_Witness ==
    /\ last.op = "stop_link" /\ last.err = "ok"
    /\ Len(last.links["L1"].logs) = LogLimit
    /\ Len(links["L1"].logs) = LogLimit
    /\ links["L1"].logs[1] = last.links["L1"].logs[2]
    /\ links["L1"].logs[LogLimit].msg = Msg("Stopped", 0, <<>>)

(***************************************************************************)
(* Claims about stopping and closing, checked under SpecSession.           *)
(***************************************************************************)

(* C12: when stop_link has returned for a configuration, none of its       *)
(* sources has a live Observer, and as long as the configuration is not    *)
(* started again no handler of it changes the filesystem.                  *)
C12_StopDrainsSessions ==
    /\ last.op = "stop_link" =>
          \A i \in 1..Len(links[last.id].sources) : ~links[last.id].sources[i].obs.alive
    /\ (last.op \in HandlerOps /\ last.id \in last.halted) => fs = last.pre

(* C13: stop_link on an active configuration leaves it inactive with no    *)
(* Observer at any source; the filesystem is as it was, and so are the     *)
(* configuration's name, target_path and sources.                          *)
C13_StopFrame ==
    (last.op = "stop_link" /\ last.links[last.id].is_active) =>
        /\ ~links[last.id].is_active
        /\ \A i \in 1..Len(links[last.id].sources) :
               links[last.id].sources[i].obs = NoObserver
        /\ fs = last.pre
        /\ last.id \in DOMAIN links /\ DOMAIN links = DOMAIN last.links
        /\ links[last.id].name = last.links[last.id].name
        /\ links[last.id].target_path = last.links[last.id].target_path
        /\ SourcePaths(links[last.id]) = SourcePaths(last.links[last.id])

C13_Witness ==
    /\ last.op = "stop_link" /\ last.err = "ok"
    /\ \A i \in 1..Len(last.links["L1"].sources) : last.links["L1"].sources[i].obs.alive
    /\ \E n \in TopNames : Append(T, n) \in DOMAIN fs /\ IsLinkEntry(fs[Append(T, n)])
    /\ ~links["L1"].is_active
    /\ \A i \in 1..Len(links["L1"].sources) : links["L1"].sources[i].obs = NoObserver

(* C14: when cleanup_and_exit has returned the reconciliation thread has   *)
(* ended and no Observer of any configuration is alive.                    *)
C14_ShutdownEndsThreads ==
    ui.stop_event =>
        /\ rs.pc = "exited"
        /\ \A id \in DOMAIN links : \A i \in 1..Len(links[id].sources) :
               ~links[id].sources[i].obs.alive

(***************************************************************************)
(* Claims about the operations of the window, checked under SpecApp.       *)
(***************************************************************************)
TargetConflict(L, id, directory) ==
    \E other \in DOMAIN L \ {id} :
        L[other].target_path # <<>> /\ Key(L[other].target_path) = Key(directory)

SourceConflict(link, directory) ==
    \/ Key(directory) = Key(link.target_path)
    \/ \E i \in 1..Len(link.sources) : Key(link.sources[i].path) = Key(directory)

C16_SourcesDistinct ==
    \A id \in DOMAIN links :
        \A i \in 1..Len(links[id].sources) :
            /\ Key(links[id].sources[i].path) # Key(links[id].target_path)
            /\ \A j \in 1..Len(links[id].sources) :
                   i # j => Key(links[id].sources[i].path) # Key(links[id].sources[j].path)

(* C18: when load_settings has returned, a configuration loaded from a     *)
(* record saved as active is active only if each of its sources has a live *)
(* Observer.                                                               *)
C18_LoadedActiveIsWatched ==
    last.op = "none" =>
        \A k \in 1..Len(ui.saved) :
            (ui.saved[k].is_active /\ links[ui.saved[k].id].is_active) =>
                \A i \in 1..Len(links[ui.saved[k].id].sources) :
                    links[ui.saved[k].id].sources[i].obs.alive

(* C20: an operation leaves the target_path of a configuration that was    *)
(* active when it began naming the same directory, and the target of every *)
(* live Observer of an active configuration is that directory.             *)
C20_TargetFixedWhileActive ==
    /\ \A id \in DOMAIN last.links \cap DOMAIN links :
           last.links[id].is_active =>
               Key(links[id].target_path) = Key(last.links[id].target_path)
    /\ \A id \in DOMAIN links : \A i \in 1..Len(links[id].sources) :
           (links[id].is_active /\ links[id].sources[i].obs.alive) =>
               Key(links[id].sources[i].obs.target) = Key(links[id].target_path)

(***************************************************************************)
(* Claims about to_dict and from_dict, checked under SpecDict.             *)
(***************************************************************************)
Newest(logs, n) ==
    IF Len(logs) > n THEN SubSeq(logs, Len(logs) - n + 1, Len(logs)) ELSE logs

Elements(seq) == {seq[i] : i \in 1..Len(seq)}

(* C19: from_dict(to_dict(c)) has the id, name, target_path, sources,      *)
(* is_active and rescan_interval of c; its logs are the last 50 entries of *)
(* c's logs in their order, and the record holds at most 50 log entries.   *)
C19_RoundTrip ==
    last.op = "round_trip" =>
        \A id \in DOMAIN last.links :
            /\ id \in DOMAIN links
            /\ links[id].name = last.links[id].name
            /\ links[id].target_path = last.links[id].target_path
            /\ Elements(SourcePaths(links[id])) = Elements(SourcePaths(last.links[id]))
            /\ Len(links[id].sources) = Len(last.links[id].sources)
            /\ links[id].is_active = last.links[id].is_active
            /\ links[id].rescan_interval = last.links[id].rescan_interval
            /\ links[id].logs = Newest(last.links[id].logs, 50)
            /\ \A k \in 1..Len(ui.saved) : Len(ui.saved[k].logs) <= 50

C19_Witness ==
    /\ last.op = "round_trip"
    /\ Len(last.links["L1"].logs) = 52 /\ Len(links["L1"].logs) = 50
    /\ links["L1"].logs[1] = last.links["L1"].logs[3]
    /\ links["L1"].is_active /\ Len(links["L1"].sources) = 2
    /\ links["L1"].rescan_interval = 3600

(***************************************************************************)
(* Claims about the two threads of a session, checked under SpecRace.      *)
(***************************************************************************)
RaceItem == Append(S1, "a")

RaceOver == rs.pc = "merged" /\ RaceObs.pc = "idle" /\ RaceObs.queue = <<>>

(* C17: however the steps of on_created for a new item and of a merge of  *)
(* the same source interleave, no exception leaves either of them, and     *)
(* once both are over the target holds, at the name of the item, one      *)
(* entry: a link to the item, of the kind of the item.                     *)
C17_RaceSafe ==
    /\ RaceObs.alive
    /\ rs.err = "ok"
    /\ RaceOver =>
          /\ Append(T, "a") \in DOMAIN fs
          /\ fs[Append(T, "a")] = Link(RaceItem, IsDir(fs, RaceItem))
          /\ Under(fs, Append(T, "a")) = {}

(* both threads found the name free, the merge made the link first, and   *)
(* the mklink of the handler failed                                        *)
C17_Witness ==
    /\ last.op = "created_mklink"
    /\ last.err = "failed"
    /\ Append(T, "a") \in DOMAIN last.pre
    /\ last.pre[Append(T, "a")] = Link(RaceItem, IsDir(fs, RaceItem))
    /\ fs = last.pre

(***************************************************************************)
(* Claims about removing and deleting, checked under SpecRemove.           *)
(***************************************************************************)
(* the links of the tree of the target, at any depth, that lead into source *)
LinksInto(F, target, source) ==
    {q \in Under(F, Key(target)) :
        IsLinkEntry(F[q]) /\ StartsWithPath(Key(F[q].d), Key(source))}

DeletedWithCleanup == last.op = "delete_link" /\ last.err = "ok" /\ last.again

(* C21: after delete_link with the cleanup answered yes, the configuration *)
(* is gone and the tree of its target holds no link, at any depth, that     *)
(* leads into one of its sources.                                           *)
C21_DeleteCleansAll ==
    DeletedWithCleanup =>
        /\ last.id \notin DOMAIN links
        /\ \A i \in 1..Len(last.links[last.id].sources) :
               LinksInto(fs, last.tgt, last.links[last.id].sources[i].path) = {}

RemovedWithCleanup == last.op = "remove_source" /\ last.err = "ok" /\ last.again

(* the entries of the target that are links whose destination begins with *)
(* the path of the source                                                  *)
LinksOf(F, target, source) ==
    {q \in DOMAIN F : /\ Parent(q) = Key(target)
                      /\ IsLinkEntry(F[q])
                      /\ StartsWith(Key(F[q].d), Key(source))}

(* C30: after remove_source with the cleanup answered yes, the source is   *)
(* no longer a source of the configuration (and so has no Observer), the   *)
(* entries of the target that were links with a destination beginning with *)
(* the source's path are gone, and every other entry is as it was.         *)
C30_RemoveSourceCleans ==
    RemovedWithCleanup =>
        /\ \A i \in 1..Len(links[last.id].sources) :
               links[last.id].sources[i].path # last.src
        /\ fs = [q \in DOMAIN last.pre \ LinksOf(last.pre, last.tgt, last.src) |-> last.pre[q]]

(***************************************************************************)
(* Further claims about the merge, the handlers and the reconciliation     *)
(* thread, checked under SpecWatch.                                        *)
(***************************************************************************)
(* the items of the source the merge skips: the name is taken in the       *)
(* target and the two entries are not both directories                     *)
SkippedItems(F, source, target) ==
    {n \in ListDir(F, source) :
        /\ MergeOccupied(F, Join(target, n))
        /\ ~MergeRecurses(F, Join(source, n), Join(target, n))}

(* the messages update_status was given since the operation began *)
Said(id) ==
    {links[id].logs[i].msg : i \in 1..Len(links[id].logs)}
    \ {last.links[id].logs[i].msg : i \in 1..Len(last.links[id].logs)}

(* C22: a merge that meets an item whose name is taken in the target by an *)
(* entry it cannot merge into leaves that entry as it is, raises nothing,  *)
(* and passes a message about the skipped item to update_status.           *)
C22_SkipReported ==
    (last.op = "rescan_source" /\ last.err # "done" /\ last.src # <<>>
        /\ IsDir(last.pre, last.src)
        /\ SkippedItems(last.pre, last.src, last.tgt) # {})
    => /\ last.err = "ok"
       /\ \A n \in SkippedItems(last.pre, last.src, last.tgt) :
              /\ fs[LStat(last.pre, Join(last.tgt, n))] =
                    last.pre[LStat(last.pre, Join(last.tgt, n))]
              /\ \E m \in Said(last.id) : m.t # "Rescan restored" /\ m.p = <<n>>

(* C23: a failure on one item does not end the Observer's thread that met  *)
(* it in a handler, nor the reconciliation thread that met it in a merge.  *)
C23_FailuresAbsorbed ==
    /\ last.op \in HandlerOps =>
          \A i \in 1..Len(last.links[last.id].sources) :
              last.links[last.id].sources[i].obs.alive
                  => links[last.id].sources[i].obs.alive
    /\ last.op = "rescan_source" => rs.pc \in {"sources", "links"}

(***************************************************************************)
(* Claims about the passes of the reconciliation thread, checked under     *)
(* SpecRescan.                                                             *)
(***************************************************************************)
(* active, and the interval has passed since the last rescan *)
PassDue(link, current_time) ==
    link.is_active /\ current_time - link.last_rescan >= link.rescan_interval

Considered == last.op = "rescan_link" /\ last.id # "" /\ last.id \in DOMAIN last.links

(* C24: when a pass comes to a configuration that is active and whose      *)
(* interval has passed, it sets last_rescan to the time of the pass and    *)
(* then merges each source of the configuration once, in order, into its   *)
(* target; a configuration that is inactive or not yet due is left as it   *)
(* is and gets no merge.                                                   *)
C24_RescanGated ==
    /\ Considered =>
          IF PassDue(last.links[last.id], rs.time)
          THEN /\ links[last.id].last_rescan = rs.time
               /\ rs.pc = "sources" /\ rs.link = last.id
               /\ rs.sources = SourcePaths(last.links[last.id])
          ELSE /\ links[last.id] = last.links[last.id]
               /\ rs.pc = "links"
    /\ (rs.pc = "sources" /\ rs.link \in DOMAIN links) =>
          \E k \in 1..(Len(links[rs.link].sources) + 1) :
              /\ rs.sources = SubSeq(SourcePaths(links[rs.link]), k,
                                     Len(links[rs.link].sources))
              /\ (last.op = "rescan_source" /\ last.err # "done") =>
                     /\ k > 1
                     /\ last.src = links[rs.link].sources[k - 1].path
                     /\ last.tgt = links[rs.link].target_path
                     /\ links[rs.link].last_rescan = rs.time
              /\ last.op = "rescan_link" => k = 1

(* in one pass L1 was rescanned, both its sources merged, and L2, active,  *)
(* was passed over because its interval had not passed                     *)
C24_Witness ==
    /\ Considered /\ last.id = "L2"
    /\ last.links["L2"].is_active
    /\ ~PassDue(last.links["L2"], rs.time)
    /\ links["L2"] = last.links["L2"]
    /\ links["L1"].last_rescan = rs.time
    /\ rs.time > StartTime

Stamped(id) == links[id].last_rescan # last.links[id].last_rescan

(* C25: last_rescan never decreases; a pass that stamps a configuration    *)
(* writes the time it sampled before its sleep, and that time lies at      *)
(* least rescan_interval after the stamp it replaces.                      *)
C25_IntervalGating ==
    \A id \in DOMAIN links \cap DOMAIN last.links :
        /\ links[id].last_rescan >= last.links[id].last_rescan
        /\ Stamped(id) =>
              /\ links[id].last_rescan - last.links[id].last_rescan
                     >= last.links[id].rescan_interval
              /\ links[id].last_rescan = rs.time
              /\ rs.time < now

(* a second rescan of L1, one interval after the first *)
C25_Witness ==
    /\ last.op = "rescan_link" /\ last.id = "L1"
    /\ Stamped("L1")
    /\ last.links["L1"].last_rescan >= StartTime
    /\ links["L1"].last_rescan - last.links["L1"].last_rescan
           = last.links["L1"].rescan_interval

RescanOver == last.op = "rescan_source" /\ last.err = "done"

(* C26: when the rescan of a configuration is over, its log has gained one *)
(* summary line if the merges of its sources restored anything, and none   *)
(* if they restored nothing.                                               *)
C26_OneSummaryLine ==
    RescanOver => last.lines = (IF last.total > 0 THEN 1 ELSE 0)

(***************************************************************************)
(* Claims about the single handlers, checked under SpecWatch and, for the  *)
(* moves, under SpecMove.                                                  *)
(***************************************************************************)
Handled(name) == last.op = name

(* the entry of the target a notification for path is about *)
TargetOf(path) == Join(last.tgt, BaseName(path))

(* C27: on_created for a direct child merges the new directory into the    *)
(* target entry of its name when that entry is a real directory; makes one *)
(* link to the new item when the name is free; and changes nothing when    *)
(* the name is taken by anything else (a link, a broken link, a file).     *)
C27_CreatedHandling ==
    (Handled("on_created") /\ _is_direct_child(last.src, last.ev.src_path)) =>
        IF RealDirAt(last.pre, TargetOf(last.ev.src_path)) /\ last.ev.is_directory
        THEN fs = merge_directory_contents(last.pre, last.ev.src_path,
                                           TargetOf(last.ev.src_path)).fs
        ELSE IF ~LExists(last.pre, TargetOf(last.ev.src_path))
             THEN fs = With(last.pre, Key(TargetOf(last.ev.src_path)),
                            Link(last.ev.src_path, last.ev.is_directory))
        ELSE fs = last.pre

(* the removal chosen by what the entry itself is: rmdir for a directory   *)
(* and a directory link, del for a file and a file link                    *)
OwnKindRemove(F, p) ==
    IF F[LStat(F, p)].k \in {"dir", "dlink"} THEN RmDir(F, p) ELSE Del(F, p)

(* C28: on_deleted for a direct child removes the target entry of that     *)
(* name if there is one, by the command that fits the entry's own kind,    *)
(* whether or not the destination of a link still exists; so the link is   *)
(* gone after its source directory was deleted.                            *)
C28_DeletedHandling ==
    (Handled("on_deleted") /\ _is_direct_child(last.src, last.ev.src_path)) =>
        IF LExists(last.pre, TargetOf(last.ev.src_path))
        THEN /\ fs = OwnKindRemove(last.pre, TargetOf(last.ev.src_path)).fs
             /\ IsLink(last.pre, TargetOf(last.ev.src_path))
                    => ~LExists(fs, TargetOf(last.ev.src_path))
        ELSE fs = last.pre

(* the notification is a move with just one end directly in the source *)
OneSided(old, new) ==
    /\ Handled("on_moved")
    /\ _is_direct_child(last.src, last.ev.src_path) = old
    /\ _is_direct_child(last.src, last.ev.dest_path) = new

(* C29: on_moved with only the old path directly in the source removes the *)
(* target entry of the old name and makes nothing; with only the new path   *)
(* directly in the source it does at the new name what on_created does and *)
(* removes nothing.                                                        *)
C29_OneSidedMove ==
    /\ OneSided(TRUE, FALSE) =>
          /\ ~LExists(fs, TargetOf(last.ev.src_path))
          /\ \A q \in DOMAIN fs : q \in DOMAIN last.pre /\ fs[q] = last.pre[q]
          /\ DOMAIN last.pre \ DOMAIN fs \subseteq {Key(TargetOf(last.ev.src_path))}
    /\ OneSided(FALSE, TRUE) =>
          /\ fs = on_created(last.pre, last.links,
                             [source |-> last.src, target |-> last.tgt, link |-> last.id],
                             Event("created", last.ev.dest_path, <<>>,
                                   last.ev.is_directory)).fs
          /\ DOMAIN last.pre \subseteq DOMAIN fs

(***************************************************************************)
(* Claims about merges of trees that hold links, checked under SpecLoop.   *)
(***************************************************************************)
RealSubDirs(F, dir) ==
    {q \in DOMAIN F : Len(q) = Len(dir) + 1 /\ SubSeq(q, 1, Len(dir)) = dir /\ F[q].k = "dir"}

(* the levels of real directories below and including dir *)
RECURSIVE RealDepth(_, _)
RealDepth(F, dir) ==
    IF RealSubDirs(F, dir) = {} THEN 1
    ELSE 1 + (CHOOSE n \in 1..Cardinality(DOMAIN F) :
                 /\ \E q \in RealSubDirs(F, dir) : RealDepth(F, q) = n
                 /\ \A q \in RealSubDirs(F, dir) : RealDepth(F, q) <= n)

(* C31: a merge ends, and its calls nest no deeper than the real           *)
(* directories of the source do, also when the source or the target holds  *)
(* a directory link that leads back to a directory above it.               *)
C31_MergeDepthBounded ==
    last.op = "merge" =>
        /\ last.err # "depth"
        /\ Merge(last.pre, last.src, last.tgt, RealDepth(last.pre, Key(last.src))).err
               # "depth"

(***************************************************************************)
(* Claims about what a merge and a handler may touch, checked under        *)
(* SpecMerge and SpecWatch.                                                *)
(***************************************************************************)
InSources(q) == q # <<>> /\ q[1] \in {"s1", "s2"}

(* C33: a merge of a source into the target leaves every entry inside the  *)
(* sources as it was and makes no entry there, also when the target holds  *)
(* a directory link a into s1 and s2 holds a directory a.                  *)
C33_MergeKeepsSources ==
    last.op = "merge" =>
        \A q \in DOMAIN fs \cup DOMAIN last.pre :
            InSources(q) => (q \in DOMAIN fs /\ q \in DOMAIN last.pre /\ fs[q] = last.pre[q])

(* the entry is a link that leads into the source of the session at work *)
OwnLink(q) ==
    IsLinkEntry(last.pre[q]) /\ StartsWithPath(Key(last.pre[q].d), Key(last.src))

Touched(q) == q \notin DOMAIN fs \/ fs[q] # last.pre[q]

(* C32: on_deleted, on_modified and on_moved remove or replace an entry of *)
(* the target only if it is a link into the source their session watches.  *)
C32_HandlersTouchOwnLinks ==
    last.op \in {"on_deleted", "on_modified", "on_moved"} =>
        \A q \in DOMAIN last.pre : (InTarget(q) /\ Touched(q)) => OwnLink(q)

(***************************************************************************)
(* A further claim about the cleanup, checked under SpecRemove.            *)
(***************************************************************************)
(* the sources the configuration had besides the removed one *)
OtherSources ==
    {last.links[last.id].sources[i].path : i \in 1..Len(last.links[last.id].sources)}
    \ {last.src}

(* C37: the cleanup for a removed source keeps every link of the target    *)
(* that leads into another source of the configuration and not into the    *)
(* removed one, also when the other source's path begins with the text of  *)
(* the removed source's path.                                              *)
C37_CleanupKeepsOtherSources ==
    RemovedWithCleanup =>
        \A q \in DOMAIN last.pre :
            (/\ Parent(q) = Key(last.tgt)
             /\ IsLinkEntry(last.pre[q])
             /\ \E other \in OtherSources : StartsWithPath(Key(last.pre[q].d), Key(other))
             /\ ~StartsWithPath(Key(last.pre[q].d), Key(last.src)))
            => (q \in DOMAIN fs /\ fs[q] = last.pre[q])

(***************************************************************************)
(* Claims about the user's operations while a pass of the reconciliation   *)
(* thread is under way.                                                    *)
(***************************************************************************)
(* a turn of the loop over the sources of a configuration that stop_link   *)
(* has returned for and start_link has not been called for since           *)
TurnAfterStop == last.op = "rescan_source" /\ last.id \in last.halted

(* C34: once stop_link has returned, a pass that was under way for the     *)
(* configuration creates no further link in its target.                    *)
C34_NoLinkAfterStop ==
    TurnAfterStop => \A q \in DOMAIN fs : q \in DOMAIN last.pre

(* C35: once remove source or delete has returned after its cleanup, the   *)
(* target holds no top-level link whose destination lies in the source the *)
(* cleanup was for, whatever the pass under way does afterwards.           *)
C35_CleanupOutlastsPass ==
    \A c \in last.cleaned :
        \A q \in DOMAIN fs :
            (Parent(q) = Key(c.tgt) /\ IsLinkEntry(fs[q]))
            => ~StartsWithPath(Key(fs[q].d), Key(c.src))

(***************************************************************************)
(* A claim about where the target settles, checked under SpecSettle.       *)
(***************************************************************************)
(* the top-level links of the target that lead to an item of a source that *)
(* is not there any more                                                   *)
DanglingLinks ==
    {q \in DOMAIN fs : /\ Parent(q) = Key(T)
                       /\ IsLinkEntry(fs[q])
                       /\ InSources(Key(fs[q].d))
                       /\ Key(fs[q].d) \notin DOMAIN fs}

DanglingDirLinkStays ==
    [][\A q \in DanglingLinks : fs[q].k = "dlink" => q \in DanglingLinks']_vars

====
